---- MODULE Spec2Model ----
(***************************************************************************)
(* Compliance analysis pipeline of DOCAI (backend/app/models):             *)
(*   public_data.py  - regulatory catalog, search_regulatory_sources       *)
(*   compliance.py   - analyze_document, extract_key_findings              *)
(*   ai_models.py    - analyze_compliance, analyze_document_sections       *)
(* Texts are TLA+ strings; Len, SubSeq and \o act on them character by     *)
(* character.  Scores are kept in thousandths (0.5 is 500, 1.0 is 1000).   *)
(***************************************************************************)
EXTENDS Integers, Sequences, FiniteSets, TLC

VARIABLES
    catalog,    \* public_data.REGULATORY_SOURCES, the module-level list
    text,       \* the text argument of the call under way
    pc,         \* position of the call under way
    threshold,  \* threshold argument of search_regulatory_sources (thousandths)
    results,    \* outcome of search_regulatory_sources
    findings,   \* value returned by extract_key_findings
    frame,      \* locals of the analyze_document invocation
    outcome     \* what analyze_document handed to its caller

vars == <<catalog, text, pc, threshold, results, findings, frame, outcome>>

(***************************************************************************)
(* Bounds of the model.                                                    *)
(***************************************************************************)
\* Number of fragments a generated text is made of, at most.
MaxFrags == 2

(***************************************************************************)
(* Python string primitives.                                               *)
(***************************************************************************)
Min(a, b) == IF a <= b THEN a ELSE b
Max(a, b) == IF a >= b THEN a ELSE b

\* The upper-case letters and their lower-case forms.
LowerTable ==
    [c \in {"A", "B", "C", "D", "E", "F", "G", "H", "I", "J", "K", "L", "M",
            "N", "O", "P", "Q", "R", "S", "T", "U", "V", "W", "X", "Y", "Z"} |->
        CASE c = "A" -> "a" [] c = "B" -> "b" [] c = "C" -> "c" [] c = "D" -> "d"
          [] c = "E" -> "e" [] c = "F" -> "f" [] c = "G" -> "g" [] c = "H" -> "h"
          [] c = "I" -> "i" [] c = "J" -> "j" [] c = "K" -> "k" [] c = "L" -> "l"
          [] c = "M" -> "m" [] c = "N" -> "n" [] c = "O" -> "o" [] c = "P" -> "p"
          [] c = "Q" -> "q" [] c = "R" -> "r" [] c = "S" -> "s" [] c = "T" -> "t"
          [] c = "U" -> "u" [] c = "V" -> "v" [] c = "W" -> "w" [] c = "X" -> "x"
          [] c = "Y" -> "y" [] c = "Z" -> "z"]

\* str.lower() on one character (ASCII letters; the alphabet of the texts).
LowerChar(c) == IF c \in DOMAIN LowerTable THEN LowerTable[c] ELSE c

\* str.lower(): every character mapped, the string split in halves.
RECURSIVE Lower(_)
Lower(s) ==
    IF Len(s) = 0 THEN ""
    ELSE IF Len(s) = 1 THEN LowerChar(s)
    ELSE LET h == Len(s) \div 2
         IN  Lower(SubSeq(s, 1, h)) \o Lower(SubSeq(s, h + 1, Len(s)))

\* str.replace(old, new) for one-character old and new.
RECURSIVE Replace(_, _, _)
Replace(s, old, new) ==
    IF Len(s) = 0 THEN ""
    ELSE IF Len(s) = 1 THEN (IF s = old THEN new ELSE s)
    ELSE LET h == Len(s) \div 2
         IN  Replace(SubSeq(s, 1, h), old, new)
             \o Replace(SubSeq(s, h + 1, Len(s)), old, new)

\* `k in s`: k occurs in s as a contiguous substring.
Contains(k, s) ==
    \E i \in 1..(Len(s) - Len(k) + 1) : SubSeq(s, i, i + Len(k) - 1) = k

\* s.rfind(k): 0-based index of the last occurrence, -1 when there is none.
Find_Last(s, k) ==
    IF Contains(k, s)
    THEN (CHOOSE i \in 1..(Len(s) - Len(k) + 1) :
            /\ SubSeq(s, i, i + Len(k) - 1) = k
            /\ \A j \in (i + 1)..(Len(s) - Len(k) + 1) :
                  SubSeq(s, j, j + Len(k) - 1) # k) - 1
    ELSE -1

\* s.find(k): 0-based index of the first occurrence, -1 when there is none.
Find(s, k) ==
    IF Contains(k, s)
    THEN (CHOOSE i \in 1..(Len(s) - Len(k) + 1) :
            /\ SubSeq(s, i, i + Len(k) - 1) = k
            /\ \A j \in 1..(i - 1) : SubSeq(s, j, j + Len(k) - 1) # k) - 1
    ELSE -1

\* IsBlank that takes the space for the only whitespace character.
IsBlank_SpacesOnly(s) ==
    \A i \in 1..Len(s) : SubSeq(s, i, i) = " "

\* s.strip() is empty: s holds nothing but whitespace.
IsBlank(s) ==
    \A i \in 1..Len(s) : SubSeq(s, i, i) \in {" ", "\t", "\n", "\r", "\f"}

(***************************************************************************)
(* public_data.py: the regulatory catalog and the related-term table.      *)
(***************************************************************************)
\* public_data.REGULATORY_SOURCES, in declaration order.
REGULATORY_SOURCES == <<
    [keyword |-> "money laundering",
     title |-> "Bank Secrecy Act",
     url |-> "https://www.fincen.gov/resources/statutes-regulations/bank-secrecy-act",
     description |-> "Regulations to combat money laundering and terrorist financing.",
     categories |-> <<"financial", "banking", "anti_money_laundering">>],
    [keyword |-> "lending",
     title |-> "Truth in Lending Act",
     url |-> "https://www.consumerfinance.gov/policy-compliance/guidance/implementation-guidance/taft/",
     description |-> "Guidelines ensuring transparency in lending practices.",
     categories |-> <<"financial", "lending", "consumer_protection">>],
    [keyword |-> "data privacy",
     title |-> "General Data Protection Regulation (GDPR)",
     url |-> "https://gdpr-info.eu/",
     description |-> "Comprehensive data privacy regulation in the EU.",
     categories |-> <<"data_privacy", "personal_data", "data_protection">>],
    [keyword |-> "health information",
     title |-> "Health Insurance Portability and Accountability Act (HIPAA)",
     url |-> "https://www.hhs.gov/hipaa/for-professionals/index.html",
     description |-> "Regulations for protecting sensitive patient health information.",
     categories |-> <<"healthcare", "medical_data", "patient_privacy">>],
    [keyword |-> "payment processing",
     title |-> "Payment Card Industry Data Security Standard (PCI DSS)",
     url |-> "https://www.pcisecuritystandards.org/",
     description |-> "Security standards for organizations that handle credit card information.",
     categories |-> <<"payment_processing", "financial_data", "credit_card">>],
    [keyword |-> "financial reporting",
     title |-> "Sarbanes-Oxley Act (SOX)",
     url |-> "https://www.sec.gov/spotlight/sarbanes-oxley.htm",
     description |-> "Regulations for financial disclosure and corporate governance.",
     categories |-> <<"financial_reporting", "accounting", "corporate_governance">>],
    [keyword |-> "information security",
     title |-> "ISO 27001 Standards",
     url |-> "https://www.iso.org/isoiec-27001-information-security.html",
     description |-> "Information security management standards.",
     categories |-> <<"information_security", "risk_management", "security_controls">>],
    [keyword |-> "consumer protection",
     title |-> "Consumer Financial Protection Bureau (CFPB) Regulations",
     url |-> "https://www.consumerfinance.gov/rules-policy/",
     description |-> "Regulations to protect consumers in the financial marketplace.",
     categories |-> <<"consumer_protection", "financial", "lending">>],
    [keyword |-> "securities",
     title |-> "Securities and Exchange Commission (SEC) Regulations",
     url |-> "https://www.sec.gov/rules",
     description |-> "Regulations governing securities markets and protecting investors.",
     categories |-> <<"securities", "investing", "financial_markets">>],
    [keyword |-> "anti-corruption",
     title |-> "Foreign Corrupt Practices Act (FCPA)",
     url |-> "https://www.justice.gov/criminal-fraud/foreign-corrupt-practices-act",
     description |-> "U.S. law prohibiting bribery of foreign officials to obtain business advantages.",
     categories |-> <<"anti_corruption", "bribery", "international_business">>],
    [keyword |-> "environmental compliance",
     title |-> "Environmental Protection Agency (EPA) Regulations",
     url |-> "https://www.epa.gov/laws-regulations",
     description |-> "Regulations to protect human health and the environment.",
     categories |-> <<"environmental", "pollution", "sustainability">>],
    [keyword |-> "employment",
     title |-> "Equal Employment Opportunity Commission (EEOC) Regulations",
     url |-> "https://www.eeoc.gov/laws-regulations",
     description |-> "Regulations prohibiting workplace discrimination.",
     categories |-> <<"employment", "discrimination", "workplace">>],
    [keyword |-> "data breach",
     title |-> "Data Breach Notification Laws",
     url |-> "https://www.ncsl.org/technology-and-communication/security-breach-notification-laws",
     description |-> "State laws requiring notification of security breaches involving personal information.",
     categories |-> <<"data_privacy", "security_breach", "notification">>],
    [keyword |-> "export control",
     title |-> "Export Administration Regulations (EAR)",
     url |-> "https://www.bis.doc.gov/index.php/regulations/export-administration-regulations-ear",
     description |-> "Regulations governing exports of commercial and dual-use items.",
     categories |-> <<"export_control", "international_trade", "national_security">>],
    [keyword |-> "healthcare compliance",
     title |-> "Centers for Medicare & Medicaid Services (CMS) Regulations",
     url |-> "https://www.cms.gov/regulations-and-guidance/regulations-and-guidance",
     description |-> "Regulations for healthcare providers and facilities.",
     categories |-> <<"healthcare", "medicare", "medicaid">>]
  >>

\* The related_terms_dict of _get_related_terms.
related_terms_dict ==
       ("money laundering" :> <<"aml", "anti-money laundering", "financial crime", "suspicious activity", "kyc", "know your customer">>)
    @@ ("lending" :> <<"loan", "credit", "mortgage", "financing", "borrowing", "interest rate">>)
    @@ ("data privacy" :> <<"personal data", "data protection", "privacy policy", "data subject", "data controller", "data processor">>)
    @@ ("health information" :> <<"phi", "protected health information", "medical records", "patient data", "healthcare data">>)
    @@ ("payment processing" :> <<"payment card", "credit card", "debit card", "card processing", "merchant services">>)
    @@ ("financial reporting" :> <<"financial statements", "accounting", "audit", "disclosure", "financial records">>)
    @@ ("information security" :> <<"infosec", "cybersecurity", "data security", "network security", "security controls">>)
    @@ ("consumer protection" :> <<"consumer rights", "unfair practices", "deceptive practices", "consumer complaints">>)
    @@ ("securities" :> <<"stocks", "bonds", "investments", "securities trading", "securities fraud">>)
    @@ ("anti-corruption" :> <<"bribery", "corruption", "foreign officials", "improper payments">>)
    @@ ("environmental compliance" :> <<"environmental regulations", "pollution control", "emissions", "waste management">>)
    @@ ("employment" :> <<"labor laws", "workplace", "discrimination", "harassment", "equal opportunity">>)
    @@ ("data breach" :> <<"security breach", "data leak", "unauthorized access", "data compromise">>)
    @@ ("export control" :> <<"export regulations", "trade compliance", "sanctions", "restricted items">>)
    @@ ("healthcare compliance" :> <<"healthcare regulations", "medicare compliance", "medicaid compliance">>)

\* _get_related_terms(keyword): related_terms_dict.get(keyword.lower(), []).
get_related_terms(keyword) ==
    IF Lower(keyword) \in DOMAIN related_terms_dict
    THEN related_terms_dict[Lower(keyword)]
    ELSE <<>>

\* The fields search_regulatory_sources reads of a catalog entry.
SourceFields == {"keyword", "title", "url", "description", "categories"}

(***************************************************************************)
(* public_data.search_regulatory_sources.  An outcome is                   *)
(* [raised |-> TRUE] (an exception left the function) or                   *)
(* [raised |-> FALSE, value |-> the returned list].                        *)
(***************************************************************************)
KeywordWeight  == 500     \* relevance_score += 0.5
CategoryWeight == 300     \* relevance_score += 0.3
TitleWeight    == 400     \* relevance_score += 0.4
RelatedWeight  == 200     \* relevance_score += 0.2
ScoreCap       == 1000    \* min(relevance_score, 1.0)
DefaultThreshold == 300   \* threshold: float = 0.3

Raised == [raised |-> TRUE]
Returned(v) == [raised |-> FALSE, value |-> v]

\* `x in list`.
InSeq(x, seq) == \E i \in 1..Len(seq) : seq[i] = x

\* if source["keyword"].lower() in text_lower: relevance_score += 0.5
KeywordScore(source, text_lower) ==
    IF Contains(Lower(source["keyword"]), text_lower) THEN KeywordWeight ELSE 0

\* One pass of the loop over source["categories"]: acc is
\* [score, matched] before the category, the value is acc after it.
CategoryStep(category, text_lower, acc) ==
    LET category_term == Replace(category, "_", " ")
        a1 == IF Contains(category_term, text_lower)
              THEN [score   |-> acc.score + CategoryWeight,
                    matched |-> Append(acc.matched, category)]
              ELSE acc
    IN  IF Contains(category, text_lower)
        THEN [score   |-> a1.score + CategoryWeight,
              matched |-> IF InSeq(category, a1.matched)
                          THEN a1.matched
                          ELSE Append(a1.matched, category)]
        ELSE a1

\* for category in source["categories"]: ...
RECURSIVE CategoryLoop(_, _, _, _)
CategoryLoop(categories, text_lower, i, acc) ==
    IF i > Len(categories) THEN acc
    ELSE CategoryLoop(categories, text_lower, i + 1,
                      CategoryStep(categories[i], text_lower, acc))

\* TitleScore that also counts the acronym in parentheses at the end of the
\* title as the title.
TitleScore_Acronym(source, text_lower) ==
    LET title == Lower(source["title"])
        open  == Find(title, "(")
    IN  IF Contains(title, text_lower)
           \/ (open >= 0 /\ Contains(SubSeq(title, open + 2, Len(title) - 1),
                                      text_lower))
        THEN TitleWeight ELSE 0

\* if source["title"].lower() in text_lower: relevance_score += 0.4
TitleScore(source, text_lower) ==
    IF Contains(Lower(source["title"]), text_lower) THEN TitleWeight ELSE 0

\* RelatedLoop without the break: the bonus once per related term found.
RECURSIVE RelatedLoop_NoBreak(_, _, _, _)
RelatedLoop_NoBreak(related_terms, text_lower, i, score) ==
    IF i > Len(related_terms) THEN score
    ELSE RelatedLoop_NoBreak(related_terms, text_lower, i + 1,
             IF Contains(Lower(related_terms[i]), text_lower)
             THEN score + RelatedWeight ELSE score)

\* for term in related_terms: if term.lower() in text_lower: += 0.2; break
RECURSIVE RelatedLoop(_, _, _, _)
RelatedLoop(related_terms, text_lower, i, score) ==
    IF i > Len(related_terms) THEN score
    ELSE IF Contains(Lower(related_terms[i]), text_lower)
         THEN score + RelatedWeight
         ELSE RelatedLoop(related_terms, text_lower, i + 1, score)

\* Lines 145-175 for one source: the relevance score before the threshold
\* test and the categories matched.  The subscripts source["keyword"],
\* source["categories"] and source["title"] raise KeyError on an entry that
\* lacks the key.
RawScore(source, text_lower) ==
    IF ~({"keyword", "categories", "title"} \subseteq DOMAIN source)
    THEN [raised |-> TRUE]
    ELSE LET s1 == KeywordScore(source, text_lower)
             a  == CategoryLoop(source["categories"], text_lower, 1,
                                [score |-> s1, matched |-> <<>>])
             s3 == a.score + TitleScore(source, text_lower)
             s4 == RelatedLoop(get_related_terms(source["keyword"]),
                               text_lower, 1, s3)
         IN  [raised |-> FALSE, score |-> s4, matched |-> a.matched]

\* The raw score of every source of the catalog, in catalog order.  The
\* score of a source depends on the text and on that source alone.
RawScores(sources, text_lower) ==
    [i \in 1..Len(sources) |-> RawScore(sources[i], text_lower)]

\* CapScore without the cap.
CapScore_NoCap(relevance_score) == relevance_score

\* relevance_score = min(relevance_score, 1.0)
CapScore(relevance_score) == Min(relevance_score, ScoreCap)

\* if relevance_score >= threshold
AboveThreshold(relevance_score, th) == relevance_score >= th

\* The dictionary appended to results for a retained source.
SourceMatch(source, raw) ==
    [source_name        |-> source["title"],
     source_url         |-> source["url"],
     source_description |-> source["description"],
     relevance_score    |-> CapScore(raw.score),
     matched_categories |-> raw.matched]

\* Lines 177-188 for one source, given its raw score: source["url"] and
\* source["description"] are read only when the source is retained.
RetainSource(source, raw, th) ==
    IF raw.raised
    THEN [raised |-> TRUE]
    ELSE IF ~AboveThreshold(raw.score, th)
    THEN [raised |-> FALSE, keep |-> FALSE]
    ELSE IF ~({"url", "description"} \subseteq DOMAIN source)
    THEN [raised |-> TRUE]
    ELSE [raised |-> FALSE, keep |-> TRUE, match |-> SourceMatch(source, raw)]

\* for source in REGULATORY_SOURCES: ... results.append(...)
RECURSIVE SourceLoop(_, _, _, _, _)
SourceLoop(sources, raws, th, i, acc) ==
    IF i > Len(sources) THEN Returned(acc)
    ELSE LET r == RetainSource(sources[i], raws[i], th)
         IN  IF r.raised THEN Raised
             ELSE SourceLoop(sources, raws, th, i + 1,
                             IF r.keep THEN Append(acc, r.match) ELSE acc)

\* list.sort(key=relevance_score, reverse=True): a stable sort, so equal
\* scores keep the order they were appended in.  x goes after every element
\* whose score is at least its own.
RECURSIVE InsertDesc(_, _)
InsertDesc(sorted, x) ==
    IF Len(sorted) = 0 THEN <<x>>
    ELSE IF Head(sorted).relevance_score >= x.relevance_score
         THEN <<Head(sorted)>> \o InsertDesc(Tail(sorted), x)
         ELSE <<x>> \o sorted

RECURSIVE SortLoop(_, _, _)
SortLoop(seq, i, sorted) ==
    IF i > Len(seq) THEN sorted
    ELSE SortLoop(seq, i + 1, InsertDesc(sorted, seq[i]))

\* A sort by descending score that is not stable: x goes before the
\* elements whose score equals its own.
RECURSIVE InsertDesc_Unstable(_, _)
InsertDesc_Unstable(sorted, x) ==
    IF Len(sorted) = 0 THEN <<x>>
    ELSE IF Head(sorted).relevance_score > x.relevance_score
         THEN <<Head(sorted)>> \o InsertDesc_Unstable(Tail(sorted), x)
         ELSE <<x>> \o sorted

RECURSIVE SortLoop_Unstable(_, _, _)
SortLoop_Unstable(seq, i, sorted) ==
    IF i > Len(seq) THEN sorted
    ELSE SortLoop_Unstable(seq, i + 1, InsertDesc_Unstable(sorted, seq[i]))

SortByRelevance_Unstable(seq) == SortLoop_Unstable(seq, 1, <<>>)

\* No sort at all: the order of the input.
SortByRelevance_Unsorted(seq) == seq

SortByRelevance(seq) == SortLoop(seq, 1, <<>>)

\* Lines 143-193 given the raw scores of the sources: the loop's threshold
\* test and append, then the sort.
SearchScored(sources, raws, th) ==
    LET r == SourceLoop(sources, raws, th, 1, <<>>)
    IN  IF r.raised THEN Raised ELSE Returned(SortByRelevance(r.value))

\* search_regulatory_sources(text, threshold) over the catalog `sources`.
search_regulatory_sources(sources, t, th) ==
    SearchScored(sources, RawScores(sources, Lower(t)), th)

(***************************************************************************)
(* compliance.extract_key_findings and extract_context.                    *)
(***************************************************************************)
\* compliance_keywords, a dict: its items come in insertion order.
compliance_keywords == <<
    [risk_level |-> "high_risk",
     keywords   |-> <<"violation", "non-compliance", "breach", "illegal",
                      "prohibited", "penalty", "fine", "lawsuit",
                      "litigation", "criminal">>],
    [risk_level |-> "medium_risk",
     keywords   |-> <<"requirement", "regulation", "policy", "standard",
                      "guideline", "law", "rule", "compliance", "mandatory",
                      "obligation">>],
    [risk_level |-> "low_risk",
     keywords   |-> <<"recommendation", "best practice", "suggestion",
                      "advisory", "optional", "consideration", "may",
                      "might", "could">>]
  >>

MaxFindings == 10       \* if len(findings) > 10: findings = findings[:10]
ContextSize == 50       \* context_size: int = 50

\* extract_context(text, keyword, context_size)
extract_context(t, keyword, context_size) ==
    LET text_lower    == Lower(t)
        keyword_lower == Lower(keyword)
        position      == Find(text_lower, keyword_lower)
        start         == Max(0, position - context_size)
        end           == Min(Len(t), position + Len(keyword) + context_size)
        context       == SubSeq(t, start + 1, end)
        c1            == IF start > 0 THEN "..." \o context ELSE context
    IN  IF position = -1 THEN ""
        ELSE IF end < Len(t) THEN c1 \o "..." ELSE c1

\* The dictionary appended for a keyword found in the text.
Finding(t, risk_level, keyword) ==
    [finding    |-> "Contains reference to '" \o keyword \o "'",
     risk_level |-> risk_level,
     context    |-> extract_context(t, keyword, ContextSize)]

\* KeywordLoop that drops a keyword lying inside a keyword already found.
RECURSIVE KeywordLoop_Dedup(_, _, _, _, _, _)
KeywordLoop_Dedup(t, text_lower, risk_level, keywords, i, acc) ==
    IF i > Len(keywords) THEN acc
    ELSE KeywordLoop_Dedup(t, text_lower, risk_level, keywords, i + 1,
             IF /\ Contains(keywords[i], text_lower)
                /\ \A j \in 1..Len(acc) : ~Contains(keywords[i], acc[j].finding)
             THEN Append(acc, Finding(t, risk_level, keywords[i]))
             ELSE acc)

\* for keyword in keywords: if keyword in text.lower(): findings.append(...)
\* (text_lower is text.lower(), the same value at every pass).
RECURSIVE KeywordLoop(_, _, _, _, _, _)
KeywordLoop(t, text_lower, risk_level, keywords, i, acc) ==
    IF i > Len(keywords) THEN acc
    ELSE KeywordLoop(t, text_lower, risk_level, keywords, i + 1,
                     IF Contains(keywords[i], text_lower)
                     THEN Append(acc, Finding(t, risk_level, keywords[i]))
                     ELSE acc)

\* for risk_level, keywords in compliance_keywords.items(): ...
RECURSIVE TierLoop(_, _, _, _)
TierLoop(t, text_lower, i, acc) ==
    IF i > Len(compliance_keywords) THEN acc
    ELSE TierLoop(t, text_lower, i + 1,
                  KeywordLoop(t, text_lower, compliance_keywords[i].risk_level,
                              compliance_keywords[i].keywords, 1, acc))

\* LimitFindings keeping the last 10 findings instead of the first 10.
LimitFindings_Tail(fs) ==
    IF Len(fs) > MaxFindings THEN SubSeq(fs, Len(fs) - MaxFindings + 1, Len(fs)) ELSE fs

\* if len(findings) > 10: findings = findings[:10]
LimitFindings(fs) ==
    IF Len(fs) > MaxFindings THEN SubSeq(fs, 1, MaxFindings) ELSE fs

\* extract_key_findings(text)
extract_key_findings(t) == LimitFindings(TierLoop(t, Lower(t), 1, <<>>))

(***************************************************************************)
(* ai_models.py: the zero-shot classifier is an opaque, failure-prone      *)
(* call.  An answer is the pipeline's result dictionary, labels ordered by *)
(* score (scores in thousandths); a call may raise instead.                *)
(***************************************************************************)
COMPLIANCE_LABELS == <<"compliant", "non-compliant">>
RELEVANCE_LABELS  == <<"relevant", "not relevant">>

\* What nlp_pipeline(text, labels) may answer for a two-label call.
ClassifierAnswers(labels) ==
    { [labels |-> labels,                      scores |-> <<900, 100>>],
      [labels |-> <<labels[2], labels[1]>>,    scores |-> <<800, 200>>] }

\* The exceptions a classifier call may raise, by their message.
ClassifierErrors == {"classifier timeout"}

\* analyze_compliance(text, candidate_labels): the top label and its score.
analyze_compliance(answer) ==
    [label |-> answer.labels[1], confidence |-> answer.scores[1]]

\* result["labels"].index("relevant"), then result["scores"][relevance_index]
TransformerScore(answer) ==
    answer.scores[CHOOSE i \in 1..Len(answer.labels) : answer.labels[i] = "relevant"]

KeywordMatchThreshold == 200    \* search_regulatory_sources(text, threshold=0.2)
CitationThreshold     == 300    \* generate_enhanced_citations threshold = 0.3

\* CombinedScore with the two weights exchanged.
CombinedScore_Swapped(match, transformer_score) ==
    (7 * match.relevance_score + 3 * transformer_score) \div 10

\* combined_score = 0.3 * match["relevance_score"] + 0.7 * transformer_score
CombinedScore(match, transformer_score) ==
    (3 * match.relevance_score + 7 * transformer_score) \div 10

\* One pass of the loop of generate_enhanced_citations over keyword_matches.
EnhanceStep(enhanced_matches, match, answer) ==
    LET transformer_score == TransformerScore(answer)
        combined_score    == CombinedScore(match, transformer_score)
    IN  IF combined_score >= CitationThreshold
        THEN Append(enhanced_matches,
                    [source_name        |-> match.source_name,
                     source_url         |-> match.source_url,
                     source_description |-> match.source_description,
                     relevance_score    |-> combined_score,
                     matched_categories |-> match.matched_categories,
                     transformer_score  |-> transformer_score])
        ELSE enhanced_matches

\* The character U+0001 (start of heading): neither printable nor
\* whitespace.
SOH == ""

\* c.isspace() for the whitespace of the texts.
IsSpace(c) == c \in {" ", "\t", "\n", "\r", "\f"}

\* c.isprintable() over the characters of the texts: ASCII, of which the
\* texts use the control characters tab, newline, carriage return, form
\* feed and U+0001.
IsPrintable(c) == c \notin {"\t", "\n", "\r", "\f", SOH}

\* not (c.isprintable() or c.isspace())
IsNonPrintable(c) == ~(IsPrintable(c) \/ IsSpace(c))

\* re.sub(r'\s+', ' ', text) on s[lo..hi]: a whitespace character becomes a
\* space when it opens a run of whitespace and disappears otherwise.
RECURSIVE CollapseRange(_, _, _)
CollapseRange(s, lo, hi) ==
    IF lo > hi THEN ""
    ELSE IF lo = hi
    THEN IF ~IsSpace(SubSeq(s, lo, lo)) THEN SubSeq(s, lo, lo)
         ELSE IF lo > 1 /\ IsSpace(SubSeq(s, lo - 1, lo - 1)) THEN "" ELSE " "
    ELSE LET mid == (lo + hi) \div 2
         IN  CollapseRange(s, lo, mid) \o CollapseRange(s, mid + 1, hi)

CollapseWhitespace(s) == CollapseRange(s, 1, Len(s))

\* s.strip() of a string that is not blank.
Strip(s) ==
    LET inked == {i \in 1..Len(s) : ~IsSpace(SubSeq(s, i, i))}
        first == CHOOSE i \in inked : \A j \in inked : i <= j
        last  == CHOOSE i \in inked : \A j \in inked : i >= j
    IN  IF inked = {} THEN "" ELSE SubSeq(s, first, last)

\* s.rindex(' '): 0-based index of the last space of s, which has one.
RIndexSpace(s) ==
    (CHOOSE i \in 1..Len(s) :
        /\ SubSeq(s, i, i) = " "
        /\ \A j \in (i + 1)..Len(s) : SubSeq(s, j, j) # " ") - 1

PreviewLength == 100    \* clean_text_for_preview(section, max_length=100)

\* Lines 151-158: the trim to max_length, at a word boundary when there is one.
TrimPreview(s, max_len) ==
    IF Len(s) > max_len
    THEN LET head == SubSeq(s, 1, max_len)
         IN  IF Contains(" ", head)
             THEN SubSeq(s, 1, RIndexSpace(head)) \o "..."
             ELSE head \o "..."
    ELSE s

IsLetter(c) ==
    \E i \in 1..52 :
        SubSeq("ABCDEFGHIJKLMNOPQRSTUVWXYZabcdefghijklmnopqrstuvwxyz", i, i) = c

IsDigit(c) == \E i \in 1..10 : SubSeq("0123456789", i, i) = c

IsHexDigit(c) == IsDigit(c) \/ \E i \in 1..12 : SubSeq("abcdefABCDEF", i, i) = c

\* \w over ASCII.
IsWord(c) == IsLetter(c) \/ IsDigit(c) \/ c = "_"

\* s[i - 1] of Python, "" past the end.
Char(s, i) == IF i >= 1 /\ i <= Len(s) THEN SubSeq(s, i, i) ELSE ""

\* c is matched by the character class of a pattern.
InClass(c, class) ==
    CASE class = "[\\d.]"   -> IsDigit(c) \/ c = "."
      [] class = "\\w"      -> IsWord(c)
      [] class = "[A-Za-z]" -> IsLetter(c)
      [] class = "\\s"      -> IsSpace(c)

\* The length of the longest run of characters of the class that starts at
\* position i of s.
RunLength(s, i, class) ==
    LET stops == {j \in i..(Len(s) + 1) :
                    j = Len(s) + 1 \/ ~InClass(SubSeq(s, j, j), class)}
    IN  IF i > Len(s) THEN 0
        ELSE (CHOOSE j \in stops : \A k \in stops : j <= k) - i

\* The first position >= from where s holds the character c, 0 if none.
NextIndex(s, c, from) ==
    LET at == {i \in from..Len(s) : SubSeq(s, i, i) = c}
    IN  IF at = {} THEN 0 ELSE CHOOSE i \in at : \A j \in at : i <= j

\* s[:n] of Python for any integer n.
Slice(s, n) ==
    IF n >= 0 THEN SubSeq(s, 1, Min(n, Len(s)))
    ELSE SubSeq(s, 1, Max(0, Len(s) + n))

\* sep.join(parts)
RECURSIVE Join(_, _)
Join(parts, sep) ==
    IF Len(parts) = 0 THEN ""
    ELSE IF Len(parts) = 1 THEN parts[1]
    ELSE parts[1] \o sep \o Join(Tail(parts), sep)

\* ''.join(c if (c.isprintable() or c.isspace()) else ' ' for c in text)
RECURSIVE BlankNonPrintable(_)
BlankNonPrintable(s) ==
    IF Len(s) = 0 THEN ""
    ELSE IF Len(s) = 1 THEN (IF IsNonPrintable(s) THEN " " ELSE s)
    ELSE LET h == Len(s) \div 2
         IN  BlankNonPrintable(SubSeq(s, 1, h))
             \o BlankNonPrintable(SubSeq(s, h + 1, Len(s)))

\* re.sub(r'[\x00-\x08\x0B-\x0C\x0E-\x1F\x7F]', '', text): of the
\* characters of the texts, U+0001 and the form feed are in the class.
RECURSIVE RemoveControl(_)
RemoveControl(s) ==
    IF Len(s) = 0 THEN ""
    ELSE IF Len(s) = 1 THEN (IF s \in {SOH, "\f"} THEN "" ELSE s)
    ELSE LET h == Len(s) \div 2
         IN  RemoveControl(SubSeq(s, 1, h)) \o RemoveControl(SubSeq(s, h + 1, Len(s)))

\* sum(1 for c in text if not (c.isprintable() or c.isspace()))
NonPrintableCount(s) ==
    Cardinality({i \in 1..Len(s) : IsNonPrintable(SubSeq(s, i, i))})

\* text.strip().startswith("%PDF"): %PDF after leading whitespace only.
StartsWithPdf(s) ==
    \E i \in 1..(Len(s) - 3) :
        /\ SubSeq(s, i, i + 3) = "%PDF"
        /\ \A j \in 1..(i - 1) : IsSpace(SubSeq(s, j, j))

\* One of Title(...), Author(...), Subject(...) matched at position i of s:
\* the position of the closing parenthesis, 0 when key([^)]+)\) does not
\* match there.
KeyedGroupEnd(s, i, key) ==
    IF SubSeq(s, i, Min(Len(s), i + Len(key) - 1)) = key
    THEN LET close == NextIndex(s, ")", i + Len(key))
         IN  IF close > i + Len(key) THEN close ELSE 0
    ELSE 0

\* Lines 93-96: re.findall of
\* %PDF-[\d.]+|Title\(([^)]+)\)|Author\(([^)]+)\)|Subject\(([^)]+)\) from
\* position i on, as [matched, info]: whether anything matched, and the
\* groups that are not empty (a %PDF- match has three empty groups).
RECURSIVE PdfParts(_, _, _)
PdfParts(s, i, acc) ==
    IF i > Len(s) THEN acc
    ELSE LET version == IF SubSeq(s, i, Min(Len(s), i + 4)) = "%PDF-"
                        THEN RunLength(s, i + 5, "[\\d.]") ELSE 0
             keys    == <<"Title(", "Author(", "Subject(">>
             hits    == {k \in 1..3 : KeyedGroupEnd(s, i, keys[k]) > 0}
         IN  IF version > 0
             THEN PdfParts(s, i + 5 + version, [acc EXCEPT !.matched = TRUE])
             ELSE IF hits # {}
             THEN LET k     == CHOOSE k \in hits : TRUE
                      close == KeyedGroupEnd(s, i, keys[k])
                  IN  PdfParts(s, close + 1,
                          [matched |-> TRUE,
                           info |-> Append(acc.info,
                                       SubSeq(s, i + Len(keys[k]), close - 1))])
             ELSE PdfParts(s, i + 1, acc)

\* Lines 91-99: the preview of a text that starts with %PDF.
PdfPreview(s) ==
    LET parts == PdfParts(s, 1, [matched |-> FALSE, info |-> <<>>])
    IN  IF parts.matched /\ parts.info # <<>>
        THEN "PDF Document: " \o Join(parts.info, ", ")
        ELSE "PDF Document [binary content]"

\* re.search(r'<\w+[^>]*>.*?</\w+>', text): an opening tag, then on the
\* same line a closing tag.
HasTagPair(s) ==
    \E i \in 1..Len(s) :
        /\ SubSeq(s, i, i) = "<"
        /\ IsWord(Char(s, i + 1))
        /\ \E open \in {NextIndex(s, ">", i + 2)} :
             /\ open > 0
             /\ \E k \in (open + 1)..(Len(s) - 3) :
                  /\ SubSeq(s, k, k + 1) = "</"
                  /\ \A j \in (open + 1)..(k - 1) : SubSeq(s, j, j) # "\n"
                  /\ \E run \in {RunLength(s, k + 2, "\\w")} :
                       run > 0 /\ Char(s, k + 2 + run) = ">"

\* re.findall(r'>([^<]+)<', text) from position i on.
RECURSIVE TagContent(_, _, _)
TagContent(s, i, acc) ==
    IF i > Len(s) THEN acc
    ELSE IF SubSeq(s, i, i) = ">"
    THEN LET next == NextIndex(s, "<", i + 1)
         IN  IF next = 0 THEN acc
             ELSE IF next = i + 1 THEN TagContent(s, i + 1, acc)
             ELSE TagContent(s, next + 1, Append(acc, SubSeq(s, i + 1, next - 1)))
    ELSE TagContent(s, i + 1, acc)

\* Lines 103-116: the preview of a text that holds a tag pair.
MarkupPreview(s, max_len) ==
    IF Len(s) <= max_len THEN BlankNonPrintable(s)
    ELSE LET joined        == Join(TagContent(s, 1, <<>>), " ")
             clean_content == IF IsBlank(joined) THEN "" ELSE Strip(joined)
         IN  IF clean_content # ""
             THEN "XML/HTML content: " \o Slice(clean_content, max_len - 20) \o "..."
             ELSE Slice(s, max_len) \o "..."

\* re.findall(r'[A-Za-z]{3,}', text) from position i on.
RECURSIVE Words(_, _, _)
Words(s, i, acc) ==
    IF i > Len(s) THEN acc
    ELSE LET run == RunLength(s, i, "[A-Za-z]")
         IN  IF run >= 3 THEN Words(s, i + run, Append(acc, SubSeq(s, i, i + run - 1)))
             ELSE Words(s, i + Max(run, 1), acc)

MaxFragments == 5       \* words[:5]

\* Lines 121-125: the preview of a text taken for binary.
BinaryPreview(s) ==
    LET words == Words(s, 1, <<>>)
    IN  IF words # <<>>
        THEN "Binary content with text fragments: "
             \o Join(SubSeq(words, 1, Min(MaxFragments, Len(words))), " ") \o "..."
        ELSE "[Binary content]"

\* re.search(r'obj\s+<<.*>>\s+endobj', text) on a text without newlines.
HasPdfObject(s) ==
    \E i \in 1..Len(s) :
        /\ SubSeq(s, i, Min(Len(s), i + 2)) = "obj"
        /\ \E gap \in {RunLength(s, i + 3, "\\s")} :
             /\ gap > 0
             /\ SubSeq(s, i + 3 + gap, Min(Len(s), i + 4 + gap)) = "<<"
             /\ \E k \in (i + 5 + gap)..Len(s) :
                  /\ SubSeq(s, k, Min(Len(s), k + 1)) = ">>"
                  /\ \E gap2 \in {RunLength(s, k + 2, "\\s")} :
                       /\ gap2 > 0
                       /\ SubSeq(s, k + 2 + gap2, Min(Len(s), k + 7 + gap2)) = "endobj"

\* re.search(r'stream.*endstream', text) on a text without newlines.
HasPdfStream(s) ==
    \E i \in 1..Len(s) :
        /\ SubSeq(s, i, Min(Len(s), i + 5)) = "stream"
        /\ \E k \in (i + 6)..Len(s) : SubSeq(s, k, Min(Len(s), k + 8)) = "endstream"

\* re.search(r'\\x[0-9a-fA-F]{2}', text)
HasHexEscape(s) ==
    \E i \in 1..Len(s) :
        /\ SubSeq(s, i, Min(Len(s), i + 1)) = "\\x"
        /\ IsHexDigit(Char(s, i + 2))
        /\ IsHexDigit(Char(s, i + 3))

\* Lines 160-164 without the final check for empty content.
FinishPreview_Unchecked(trimmed) == IF IsBlank(trimmed) THEN "" ELSE Strip(trimmed)

\* Lines 160-164: the final check for empty content and the strip.
FinishPreview(trimmed) ==
    IF IsBlank(trimmed) THEN "[Binary or non-text content]" ELSE Strip(trimmed)

\* Lines 127-164: the text that is neither PDF, markup nor binary.
TextPreview(t, max_len) ==
    LET blanked   == IF NonPrintableCount(t) > 0 THEN BlankNonPrintable(t) ELSE t
        collapsed == CollapseWhitespace(RemoveControl(blanked))
    IN  IF HasPdfObject(collapsed) THEN "PDF Object Structure [technical content]"
        ELSE IF HasPdfStream(collapsed) THEN "PDF Stream Data [technical content]"
        ELSE IF Contains("base64,", collapsed) THEN "Base64 Encoded Data [technical content]"
        ELSE IF HasHexEscape(collapsed) THEN "Escaped Binary Data [technical content]"
        ELSE FinishPreview(TrimPreview(collapsed, max_len))

\* clean_text_for_preview(text, max_length)
clean_text_for_preview(t, max_len) ==
    IF t = "" \/ IsBlank(t) THEN "[Binary or non-text content]"
    ELSE IF StartsWithPdf(t) THEN PdfPreview(t)
    ELSE IF HasTagPair(t) THEN MarkupPreview(t, max_len)
    ELSE IF 10 * NonPrintableCount(t) > 3 * Len(t) THEN BinaryPreview(t)
    ELSE TextPreview(t, max_len)

\* NumSections that leaves a last, shorter chunk out.
NumSections_Floor(t, section_size) == Len(t) \div section_size

\* sections = [text[i:i+section_size] for i in range(0, len(text), section_size)]
NumSections(t, section_size) == (Len(t) + section_size - 1) \div section_size

Section(t, section_size, n) ==
    SubSeq(t, (n - 1) * section_size + 1, Min(Len(t), n * section_size))

\* The list `sections` of line 54.
Sections(t, section_size) ==
    [n \in 1..NumSections(t, section_size) |-> Section(t, section_size, n)]

\* The dictionary analyze_document_sections appends for section n, given
\* its preview text.
SectionResult(n, preview_text, answer) ==
    LET r == analyze_compliance(answer)
    IN  [section_number |-> n, section_text |-> preview_text,
         status |-> r.label, confidence |-> r.confidence]

(***************************************************************************)
(* compliance.analyze_document, one invocation.  Its try block holds       *)
(* classifier calls at four places (the document, each keyword match, each *)
(* section, the backward-compatible call); the code between two calls is   *)
(* one step.                                                               *)
(***************************************************************************)
max_length       == 4096    \* max_length = 4096
section_size_0   == 1000    \* section_size = 1000
max_sections     == 10      \* max_sections = 10
section_size_cap == 2000    \* min(2000, original_length // max_sections)

\* The locals of analyze_document before its first statement.
NoFrame ==
    [text |-> "", full_text |-> "", original_length |-> 0, truncated |-> FALSE,
     status |-> "", confidence |-> 0, findings |-> <<>>,
     public_data_checks |-> <<>>, keyword_matches |-> <<>>,
     match_index |-> 1, transformer_scores |-> <<>>, enhanced_matches |-> <<>>,
     section_size |-> 0, section_results |-> <<>>,
     analysis_result |-> <<>>,
     agent |-> <<>>,
     raised_at |-> [site |-> "none", index |-> 0]]

\* A truncation that keeps the first max_length characters.
Truncate_Head(t) == SubSeq(t, 1, Min(Len(t), max_length))

\* Lines 94-99: the first 60% and the last 40% of max_length characters.
Truncate(t) ==
    LET original_length   == Len(t)
        first_part_length == (max_length * 6) \div 10
        last_part_length  == max_length - first_part_length
    IN  IF original_length > max_length
        THEN SubSeq(t, 1, first_part_length)
             \o SubSeq(t, original_length - last_part_length + 1, original_length)
        ELSE t

\* Lines 80-84.
EmptyResult ==
    [status |-> "error", error_message |-> "Empty document content",
     confidence |-> 0]

\* An except clause whose result also carries analysis fields.
HandleException_Partial(message) ==
    Returned([status |-> "error", error_message |-> message, confidence |-> 0,
              key_findings |-> <<>>, section_analysis |-> <<>>])

\* Lines 165-172: the except clause of analyze_document.
HandleException(message) ==
    Returned([status |-> "error", error_message |-> message, confidence |-> 0])

\* What search_with_agents may give check_against_public_data: the import
\* failed (AGENTS_AVAILABLE is False), the call raised, or a list came back.
AgentResult ==
    [source_name |-> "SEC EDGAR", source_url |-> "https://www.sec.gov/edgar",
     source_description |-> "", relevance_score |-> 800]

AgentOutcomes ==
    { [available |-> FALSE],
      [available |-> TRUE, raised |-> TRUE],
      [available |-> TRUE, raised |-> FALSE, value |-> <<>>],
      [available |-> TRUE, raised |-> FALSE, value |-> <<AgentResult>>] }

\* check_against_public_data without the try/except around the agent search.
check_against_public_data_Unguarded(agent, fallback) ==
    IF agent.available /\ agent.raised THEN Raised
    ELSE IF agent.available /\ agent.value # <<>>
    THEN Returned(agent.value)
    ELSE fallback

\* check_against_public_data(text), given what the agent search did and
\* what search_regulatory_sources(text) gives.
check_against_public_data(agent, fallback) ==
    IF agent.available /\ ~agent.raised /\ agent.value # <<>>
    THEN Returned(agent.value)
    ELSE fallback

\* Lines 121-122: the adaptive section size.
SectionSize(original_length) ==
    IF original_length > section_size_0 * max_sections
    THEN Min(section_size_cap, original_length \div max_sections)
    ELSE section_size_0

\* full_text[:section_size * max_sections]
SectionInput(f) ==
    SubSeq(f.full_text, 1, Min(Len(f.full_text), f.section_size * max_sections))

\* Lines 316-318: base_url = source["source_url"], with a '/' appended
\* unless it ends with one.
BaseUrl(source_url) ==
    IF Len(source_url) > 0 /\ SubSeq(source_url, Len(source_url), Len(source_url)) = "/"
    THEN source_url
    ELSE source_url \o "/"

\* Lines 320-323: the dictionary of one search URL per matched category.
SearchUrls(source) ==
    [category \in {source.matched_categories[k] :
                      k \in 1..Len(source.matched_categories)} |->
        BaseUrl(source.source_url) \o "search?q=" \o Replace(category, "_", "+")]

\* Lines 298-325: reference_info, with section_urls when the source brings
\* them or has a matched category.  (organization, publication_date,
\* access_date, relevant_sections and type are left out: they are derived
\* from the name, the description and the clock and feed nothing else.)
ReferenceInfo(source) ==
    LET categories == IF "matched_categories" \in DOMAIN source
                      THEN source.matched_categories ELSE <<>>
    IN  IF "section_urls" \in DOMAIN source
        THEN [title        |-> source.source_name,
              url          |-> source.source_url,
              description  |-> source.source_description,
              categories   |-> categories,
              section_urls |-> source.section_urls]
        ELSE IF Len(categories) > 0
        THEN [title        |-> source.source_name,
              url          |-> source.source_url,
              description  |-> source.source_description,
              categories   |-> categories,
              section_urls |-> SearchUrls(source)]
        ELSE [title        |-> source.source_name,
              url          |-> source.source_url,
              description  |-> source.source_description,
              categories   |-> categories]

\* format_citations: numbering 1..N in input order.  (citation_text, built
\* from the same fields and the current date, is left out.)
format_citations(sources) ==
    [i \in 1..Len(sources) |->
        [citation_number    |-> i,
         source_name        |-> sources[i].source_name,
         source_url         |-> sources[i].source_url,
         source_description |-> sources[i].source_description,
         relevance_score    |-> sources[i].relevance_score,
         reference_info     |-> ReferenceInfo(sources[i])]]

\* Lines 305-306 of generate_detailed_summary.
CountStatus(section_results, st) ==
    Cardinality({i \in 1..Len(section_results) : section_results[i].status = st})

\* A quotient of two integers kept exact: num / den.
Ratio(num, den) == [num |-> num, den |-> den]

\* CompliancePercentage with the quotient rounded down to a whole number.
CompliancePercentage_Whole(compliant_sections, total) ==
    IF total > 0 THEN Ratio((compliant_sections * 100) \div total, 1)
    ELSE Ratio(0, 1)

\* Line 309: (compliant_sections / len(section_results)) * 100 if
\* section_results else 0.
CompliancePercentage(compliant_sections, total) ==
    IF total > 0 THEN Ratio(compliant_sections * 100, total) ELSE Ratio(0, 1)

\* Lines 312-316.
RiskCounts(fs) ==
    [r \in {"high_risk", "medium_risk", "low_risk"} |->
        Cardinality({i \in 1..Len(fs) : fs[i].risk_level = r})]

MaxFrameworks == 3    \* sorted(...)[:3]

\* Lines 319-323 and 342-348: the three most relevant checks.
TopFrameworks(public_data_checks) ==
    LET sorted == SortByRelevance(public_data_checks)
    IN  [i \in 1..Min(MaxFrameworks, Len(sorted)) |->
            [name        |-> sorted[i].source_name,
             relevance   |-> sorted[i].relevance_score,
             description |-> sorted[i].source_description]]

ProblemConfidence == 700    \* section["confidence"] > 0.7

\* IsProblematic that takes a confidence of exactly 0.7 in.
IsProblematic_Inclusive(section) ==
    section.status = "non-compliant" /\ section.confidence >= ProblemConfidence

\* section["status"] == "non-compliant" and section["confidence"] > 0.7
IsProblematic(section) ==
    section.status = "non-compliant" /\ section.confidence > ProblemConfidence

\* Lines 326-329.
ProblematicSections(section_results) == SelectSeq(section_results, IsProblematic)

\* str(n) for a natural number.
RECURSIVE IntToStr(_)
IntToStr(n) ==
    LET digit(d) == SubSeq("0123456789", d + 1, d + 1)
    IN  IF n < 10 THEN digit(n) ELSE IntToStr(n \div 10) \o digit(n % 10)

\* str.replace(old, new) for a non-empty old: occurrences taken left to
\* right, without overlap.
RECURSIVE ReplaceAll(_, _, _)
ReplaceAll(s, old, new) ==
    IF Len(s) < Len(old) THEN s
    ELSE IF SubSeq(s, 1, Len(old)) = old
         THEN new \o ReplaceAll(SubSeq(s, Len(old) + 1, Len(s)), old, new)
         ELSE SubSeq(s, 1, 1) \o ReplaceAll(SubSeq(s, 2, Len(s)), old, new)

IsHighRisk(finding) == finding.risk_level = "high_risk"

MaxReviewed == 3      \* high_risk_findings[:3]
ManySections == 3     \* len(problematic_sections) > 3
ManyFindings == 5     \* len(findings) > 5

\* FindingRecommendations without the limit of three findings.
FindingRecommendations_Unlimited(high_risk_findings) ==
    [i \in 1..Len(high_risk_findings) |->
        LET keyword == ReplaceAll(ReplaceAll(high_risk_findings[i].finding,
                                             "Contains reference to '", ""),
                                  "'", "")
        IN  "Review and revise content related to '" \o keyword
            \o "' to ensure compliance."]

\* Lines 379-383: one recommendation per high-risk finding, three at most.
FindingRecommendations(high_risk_findings) ==
    [i \in 1..Min(MaxReviewed, Len(high_risk_findings)) |->
        LET keyword == ReplaceAll(ReplaceAll(high_risk_findings[i].finding,
                                             "Contains reference to '", ""),
                                  "'", "")
        IN  "Review and revise content related to '" \o keyword
            \o "' to ensure compliance."]

\* generate_recommendations(findings, problematic_sections)
generate_recommendations(fs, problematic_sections) ==
    LET high_risk_findings == SelectSeq(fs, IsHighRisk)
        r1 == IF high_risk_findings # <<>>
              THEN <<"Address high-risk compliance issues identified in the key findings section.">>
                   \o FindingRecommendations(high_risk_findings)
              ELSE <<>>
        r2 == IF problematic_sections # <<>>
              THEN Append(r1, "Review " \o IntToStr(Len(problematic_sections))
                              \o " sections identified as potentially non-compliant.")
              ELSE r1
        r3 == IF Len(problematic_sections) > ManySections
              THEN Append(r2, "Focus on the most problematic sections first (those with highest non-compliance confidence).")
              ELSE r2
        r4 == IF Len(fs) > ManyFindings
              THEN Append(r3, "Consider a comprehensive compliance review as multiple potential issues were identified.")
              ELSE r3
    IN  IF r4 # <<>> THEN r4
        ELSE IF fs # <<>>
        THEN <<"Review identified findings to ensure full compliance with relevant regulations.">>
        ELSE <<"Document appears to have good compliance, but regular reviews are recommended.">>

\* generate_detailed_summary(section_results, findings, public_data_checks)
generate_detailed_summary(section_results, fs, public_data_checks) ==
    LET compliant_sections     == CountStatus(section_results, "compliant")
        non_compliant_sections == Len(section_results) - compliant_sections
        problematic_sections   == ProblematicSections(section_results)
    IN  [compliance_metrics |->
            [compliant_sections     |-> compliant_sections,
             non_compliant_sections |-> non_compliant_sections,
             compliance_percentage  |->
                 CompliancePercentage(compliant_sections, Len(section_results)),
             risk_distribution      |-> RiskCounts(fs)],
         key_regulatory_frameworks |-> TopFrameworks(public_data_checks),
         problematic_sections |->
             [i \in 1..Len(problematic_sections) |->
                 [section_number |-> problematic_sections[i].section_number,
                  confidence     |-> problematic_sections[i].confidence,
                  preview        |-> problematic_sections[i].section_text]],
         recommendations |-> generate_recommendations(fs, problematic_sections)]

\* Lines 135-149: the result dictionary before the backward-compatible call.
AnalysisResult(f, detailed_summary) ==
    [status               |-> f.status,
     confidence           |-> f.confidence,
     all_scores           |-> <<>>,
     analyzed_text_length |-> Len(f.text),
     original_length      |-> f.original_length,
     truncated            |-> f.truncated,
     key_findings         |-> f.findings,
     public_data_checks   |-> f.public_data_checks,
     citations            |-> format_citations(f.enhanced_matches),
     enhanced_citations   |-> f.enhanced_matches,
     section_analysis     |-> f.section_results,
     detailed_summary     |-> detailed_summary]

\* The f-string of line 161, by its text and the two lengths it formats.
TruncationWarning(original_length) ==
    [message         |-> "Document was truncated from {original_length} to {max_length} characters for analysis.",
     original_length |-> original_length,
     max_length      |-> max_length]

\* FinalResult that never adds the warning.
FinalResult_NoWarning(analysis_result, answer, truncated) ==
    [analysis_result EXCEPT
        !.all_scores = [i \in 1..Len(answer.labels) |->
                          <<answer.labels[i], answer.scores[i]>>]]

\* Lines 157-163: all_scores filled in, the warning added when truncated.
FinalResult(analysis_result, answer, truncated) ==
    LET scored == [analysis_result EXCEPT
                     !.all_scores = [i \in 1..Len(answer.labels) |->
                                       <<answer.labels[i], answer.scores[i]>>]]
    IN  IF truncated
        THEN [k \in DOMAIN scored \cup {"warning"} |->
                IF k = "warning"
                THEN TruncationWarning(analysis_result.original_length)
                ELSE scored[k]]
        ELSE scored

(***************************************************************************)
(* Inputs.                                                                 *)
(***************************************************************************)
\* The pieces generated texts are made of.
Fragments ==
    { "This document describes a data privacy breach penalty under GDPR.",
      "General Data Protection Regulation (GDPR)",
      "PERSONAL_DATA and personal data",
      "Lending",
      "financial crime and KYC",
      "Non-compliance with policy",
      "violation breach illegal prohibited penalty fine lawsuit litigation criminal" }

RECURSIVE TextsOfLen(_)
TextsOfLen(n) ==
    IF n = 0 THEN {""}
    ELSE IF n = 1 THEN Fragments
    ELSE { t \o " " \o f : t \in TextsOfLen(n - 1), f \in Fragments }

\* Every text of at most MaxFrags fragments, joined by single spaces.
Texts == UNION { TextsOfLen(n) : n \in 0..MaxFrags }

\* The threshold arguments tried (thousandths).
Thresholds == {-100, 0, 200, 300, 600, 1000, 1100}

\* s repeated n times.
RECURSIVE Repeat(_, _)
Repeat(s, n) ==
    IF n = 0 THEN ""
    ELSE IF n % 2 = 1 THEN s \o Repeat(s, n - 1)
    ELSE LET half == Repeat(s, n \div 2) IN half \o half

Sentence == "This document describes a data privacy breach penalty under GDPR. "

\* The documents handed to analyze_document: empty, blank, one sentence, a
\* keyword, a keyword of one source with a related term of another,
\* two sections' worth, one of exactly max_length characters, one of one
\* character more, and one well beyond max_length.
Documents ==
    { "", "  \n", Sentence, "Lending policy",
      "Loan terms and our data privacy policy.",
      Repeat(Sentence, 20),
      SubSeq(Repeat(Sentence, 63), 1, max_length),
      SubSeq(Repeat(Sentence, 63), 1, max_length + 1),
      Repeat(Sentence, 64) }

(***************************************************************************)
(* analyze_document as steps.                                              *)
(***************************************************************************)
Init ==
    /\ catalog = REGULATORY_SOURCES
    /\ text \in Documents
    /\ pc = "start"
    /\ threshold = DefaultThreshold
    /\ results = Returned(<<>>)
    /\ findings = <<>>
    /\ frame = NoFrame
    /\ outcome = Returned(<<>>)

\* An exception raised inside the try block at `site` reaches the except
\* clause, which returns.
Raise(site, index, message) ==
    /\ frame' = [frame EXCEPT !.raised_at = [site |-> site, index |-> index]]
    /\ outcome' = HandleException(message)
    /\ pc' = "done"

\* Lines 78-99: the empty check and the truncation.
Start ==
    /\ pc = "start"
    /\ IF text = "" \/ IsBlank(text)
       THEN /\ outcome' = Returned(EmptyResult)
            /\ pc' = "done"
            /\ UNCHANGED frame
       ELSE /\ frame' = [frame EXCEPT
                           !.full_text = text,
                           !.original_length = Len(text),
                           !.truncated = Len(text) > max_length,
                           !.text = Truncate(text)]
            /\ pc' = "classify"
            /\ UNCHANGED outcome
    /\ UNCHANGED <<catalog, text, threshold, results, findings>>

\* Lines 104-113 and ai_models 180-183: the document-level classifier call,
\* the findings, the public data check and the keyword matches.
ClassifyDocument ==
    /\ pc = "classify"
    /\ \/ \E e \in ClassifierErrors : Raise("document", 0, e)
       \/ \E fs   \in {extract_key_findings(frame.text)},
             raws \in {RawScores(catalog, Lower(frame.text))} :
          \E fallback \in {SearchScored(catalog, raws, DefaultThreshold)},
             km       \in {SearchScored(catalog, raws, KeywordMatchThreshold)} :
            \E answer \in ClassifierAnswers(COMPLIANCE_LABELS), agent \in AgentOutcomes :
                LET r      == analyze_compliance(answer)
                    checks == check_against_public_data(agent, fallback)
                IN  IF checks.raised \/ km.raised
                    THEN Raise("catalog", 0, "KeyError")
                    ELSE /\ frame' = [frame EXCEPT
                                        !.status = r.label,
                                        !.confidence = r.confidence,
                                        !.findings = fs,
                                        !.agent = agent,
                                        !.public_data_checks = checks.value,
                                        !.keyword_matches = km.value]
                         /\ pc' = "citations"
                         /\ UNCHANGED outcome
    /\ UNCHANGED <<catalog, text, threshold, results, findings>>

\* ai_models 188-215: the classifier call for one keyword match.
EnhanceMatch ==
    /\ pc = "citations"
    /\ frame.match_index <= Len(frame.keyword_matches)
    /\ \/ \E e \in ClassifierErrors : Raise("citations", frame.match_index, e)
       \/ \E answer \in ClassifierAnswers(RELEVANCE_LABELS) :
            /\ frame' = [frame EXCEPT
                           !.enhanced_matches =
                               EnhanceStep(@, frame.keyword_matches[frame.match_index],
                                           answer),
                           !.transformer_scores = Append(@, TransformerScore(answer)),
                           !.match_index = @ + 1]
            /\ UNCHANGED <<pc, outcome>>
    /\ UNCHANGED <<catalog, text, threshold, results, findings>>

\* ai_models 218-220 and compliance 117-122: the citations sorted, the
\* section size chosen.
CitationsDone ==
    /\ pc = "citations"
    /\ frame.match_index > Len(frame.keyword_matches)
    /\ frame' = [frame EXCEPT
                   !.enhanced_matches = SortByRelevance(@),
                   !.section_size = SectionSize(frame.original_length)]
    /\ pc' = "sections"
    /\ UNCHANGED <<catalog, text, threshold, results, findings, outcome>>

\* ai_models 57-68: the classifier call for the next section.  Nothing in
\* analyze_document_sections catches an exception of analyze_compliance.
AnalyzeSection ==
    /\ pc = "sections"
    /\ LET n == Len(frame.section_results) + 1
       IN  /\ n <= NumSections(SectionInput(frame), frame.section_size)
           /\ \/ \E e \in ClassifierErrors : Raise("sections", n, e)
              \/ \E preview_text \in
                       {clean_text_for_preview(
                           Section(SectionInput(frame), frame.section_size, n),
                           PreviewLength)} :
                   \E answer \in ClassifierAnswers(COMPLIANCE_LABELS) :
                     /\ frame' = [frame EXCEPT
                                    !.section_results =
                                        Append(@, SectionResult(n, preview_text, answer))]
                     /\ UNCHANGED <<pc, outcome>>
    /\ UNCHANGED <<catalog, text, threshold, results, findings>>

\* Lines 132-149: the summary and the result dictionary.
SectionsDone ==
    /\ pc = "sections"
    /\ Len(frame.section_results)
         >= NumSections(SectionInput(frame), frame.section_size)
    /\ frame' = [frame EXCEPT
                   !.analysis_result =
                       AnalysisResult(frame,
                           generate_detailed_summary(frame.section_results,
                               frame.findings, frame.public_data_checks))]
    /\ pc' = "compat"
    /\ UNCHANGED <<catalog, text, threshold, results, findings, outcome>>

\* Lines 152-163: the backward-compatible classifier call and the return.
ClassifyCompat ==
    /\ pc = "compat"
    /\ \/ \E e \in ClassifierErrors : Raise("compat", 0, e)
       \/ \E answer \in ClassifierAnswers(COMPLIANCE_LABELS) :
            /\ outcome' = Returned(FinalResult(frame.analysis_result, answer,
                                               frame.truncated))
            /\ pc' = "done"
            /\ UNCHANGED frame
    /\ UNCHANGED <<catalog, text, threshold, results, findings>>

Next ==
    \/ Start
    \/ ClassifyDocument
    \/ EnhanceMatch
    \/ CitationsDone
    \/ AnalyzeSection
    \/ SectionsDone
    \/ ClassifyCompat

Spec == Init /\ [][Next]_vars

(***************************************************************************)
(* The matcher and the findings extractor called on generated texts.       *)
(***************************************************************************)
MatchInit ==
    /\ catalog = REGULATORY_SOURCES
    /\ text \in Texts
    /\ threshold = DefaultThreshold
    /\ pc = "idle"
    /\ results = Returned(<<>>)
    /\ findings = <<>>
    /\ frame = NoFrame
    /\ outcome = Returned(<<>>)

\* A call search_regulatory_sources(text, th).
SearchRegulatorySources ==
    /\ pc \in {"idle", "extracted"}
    /\ \E raws \in {RawScores(catalog, Lower(text))} :
         \E th \in Thresholds :
            /\ threshold' = th
            /\ results' = SearchScored(catalog, raws, th)
    /\ pc' = IF pc = "idle" THEN "searched" ELSE "both"
    /\ UNCHANGED <<catalog, text, findings, frame, outcome>>

\* A call extract_key_findings(text).
ExtractKeyFindings ==
    /\ pc \in {"idle", "searched"}
    /\ findings' = extract_key_findings(text)
    /\ pc' = IF pc = "idle" THEN "extracted" ELSE "both"
    /\ UNCHANGED <<catalog, text, threshold, results, frame, outcome>>

MatchNext == SearchRegulatorySources \/ ExtractKeyFindings

MatchSpec == MatchInit /\ [][MatchNext]_vars

(***************************************************************************)
(* The matcher over a catalog one of whose entries lacks a field.          *)
(***************************************************************************)
\* The entry without one of its keys.
WithoutField(source, field) ==
    [k \in DOMAIN source \ {field} |-> source[k]]

\* The catalog with entry i lacking `field`.
MalformedCatalog(i, field) ==
    [n \in 1..Len(REGULATORY_SOURCES) |->
        IF n = i THEN WithoutField(REGULATORY_SOURCES[n], field)
        ELSE REGULATORY_SOURCES[n]]

MalformedCatalogs ==
    { MalformedCatalog(i, field) :
        i \in 1..Len(REGULATORY_SOURCES), field \in SourceFields }

CatalogTexts ==
    { "", "Lending", "General Data Protection Regulation (GDPR)",
      "This document describes a data privacy breach penalty under GDPR." }

CatalogInit ==
    /\ catalog \in MalformedCatalogs \cup {REGULATORY_SOURCES}
    /\ text \in CatalogTexts
    /\ threshold = DefaultThreshold
    /\ pc = "idle"
    /\ results = Returned(<<>>)
    /\ findings = <<>>
    /\ frame = NoFrame
    /\ outcome = Returned(<<>>)

CatalogNext == SearchRegulatorySources

CatalogSpec == CatalogInit /\ [][CatalogNext]_vars

(***************************************************************************)
(* Single calls of the helper functions, each on arguments of its own:     *)
(* frame holds the arguments of the call, outcome what it returned.        *)
(***************************************************************************)
ContextTexts ==
    { "breach",
      "A Breach of contract, then a second breach after it.",
      "xxxxxBREACH and penalty",
      "The penalty clause comes first; the breach, and the BREACH again, later on.",
      "nothing of the kind" }

ContextKeywords == {"breach", "Breach", "penalty"}
ContextSizes    == {0, 2, 5, 10, 50}

CallInit ==
    /\ catalog = REGULATORY_SOURCES
    /\ text = ""
    /\ threshold = DefaultThreshold
    /\ pc = "idle"
    /\ results = Returned(<<>>)
    /\ findings = <<>>
    /\ frame = NoFrame
    /\ outcome = Returned(<<>>)

\* A call extract_context(text, keyword, context_size).
ExtractContext ==
    /\ pc = "idle"
    /\ \E t \in ContextTexts, keyword \in ContextKeywords,
          context_size \in ContextSizes :
            /\ text' = t
            /\ frame' = [keyword |-> keyword, context_size |-> context_size]
            /\ outcome' = Returned(extract_context(t, keyword, context_size))
    /\ pc' = "extract_context"
    /\ UNCHANGED <<catalog, threshold, results, findings>>

MaxChunk == 4

SectionTexts == {"", "abcdefg", "ab cd ef", "Breach"}
SectionSizes == 1..MaxChunk \cup {10}

\* A call analyze_document_sections(text, section_size): the classifier
\* answers every section, or raises on one of them and the exception leaves
\* the function.
AnalyzeDocumentSections ==
    /\ pc = "idle"
    /\ \E t \in SectionTexts, section_size \in SectionSizes :
         LET sections == Sections(t, section_size)
         IN  /\ text' = t
             /\ frame' = [section_size |-> section_size, sections |-> sections]
             /\ \/ /\ Len(sections) > 0
                   /\ \E e \in ClassifierErrors : outcome' = Raised
                \/ \E answers \in [1..Len(sections) ->
                                      ClassifierAnswers(COMPLIANCE_LABELS)] :
                      outcome' = Returned(
                          [n \in 1..Len(sections) |->
                              SectionResult(n,
                                  clean_text_for_preview(sections[n], PreviewLength),
                                  answers[n])])
    /\ pc' = "analyze_document_sections"
    /\ UNCHANGED <<catalog, threshold, results, findings>>

\* The lengths of the documents whose section plan is computed.
PlanLengths == {1, 1000, 9999, 10000, 10001, 10009, 10010, 15005, 19999, 20000}

\* A document of L characters that ends in a character of its own.
PlanDocument(L) == Repeat("x", L - 1) \o "$"

\* Lines 115-129 of analyze_document on a document of its own: the section
\* size chosen and the list of sections analyze_document_sections is given.
PlanSections ==
    /\ pc = "idle"
    /\ \E L \in PlanLengths :
         LET full_text    == PlanDocument(L)
             section_size == SectionSize(Len(full_text))
             f == [full_text |-> full_text, section_size |-> section_size]
         IN  /\ text' = full_text
             /\ frame' = [original_length |-> Len(full_text),
                          section_size    |-> section_size,
                          sections |-> Sections(SectionInput(f), section_size)]
    /\ pc' = "plan_sections"
    /\ UNCHANGED <<catalog, threshold, results, findings, outcome>>

MaxSummarySections == 3

\* The statuses and confidences (thousandths) of the sections summarised.
SummaryStatuses    == {"compliant", "non-compliant", "error"}
SummaryConfidences == {500, 700, 900}

\* Every list of at most MaxSummarySections section results, numbered 1..N.
SummarySections ==
    UNION { { [n \in 1..N |->
                 [section_number |-> n,
                  section_text   |-> "Section " \o IntToStr(n),
                  status         |-> choice[n][1],
                  confidence     |-> choice[n][2]]] :
              choice \in [1..N -> SummaryStatuses \X SummaryConfidences] } :
            N \in 0..MaxSummarySections }

SummaryFindings ==
    { <<>>,
      extract_key_findings("This document describes a data privacy breach penalty under GDPR.") }

SummaryChecks ==
    { SearchScored(REGULATORY_SOURCES,
                   RawScores(REGULATORY_SOURCES, "data privacy and gdpr and hipaa and kyc"),
                   DefaultThreshold).value }

\* A call generate_detailed_summary(section_results, findings,
\* public_data_checks).
GenerateDetailedSummary ==
    /\ pc = "idle"
    /\ \E section_results \in SummarySections, fs \in SummaryFindings,
          public_data_checks \in SummaryChecks :
            /\ frame' = [section_results    |-> section_results,
                         findings           |-> fs,
                         public_data_checks |-> public_data_checks]
            /\ outcome' = Returned(generate_detailed_summary(
                               section_results, fs, public_data_checks))
    /\ pc' = "generate_detailed_summary"
    /\ UNCHANGED <<catalog, text, threshold, results, findings>>

MaxProblematic == 4

\* The documents whose findings generate_recommendations is given: none,
\* medium-risk only, one to seven high-risk keywords, more than five
\* findings with and without a high-risk one.
RecommendationTexts ==
    { "",
      "Our policy is short.",
      "A breach was reported.",
      "A breach, a penalty and a fine.",
      "A violation, a breach, an illegal act and a penalty.",
      "violation breach illegal penalty fine lawsuit litigation",
      "requirement regulation policy standard guideline rule" }

\* The list of the first N sections of a document, each non-compliant with
\* confidence 0.9.
ProblematicList(N) ==
    [n \in 1..N |-> [section_number |-> n,
                     section_text   |-> "Section " \o IntToStr(n),
                     status         |-> "non-compliant",
                     confidence     |-> 900]]

\* A call generate_recommendations(findings, problematic_sections).
GenerateRecommendations ==
    /\ pc = "idle"
    /\ \E t \in RecommendationTexts, N \in 0..MaxProblematic :
         \E fs \in {extract_key_findings(t)} :
            /\ text' = t
            /\ frame' = [findings             |-> fs,
                         problematic_sections |-> ProblematicList(N)]
            /\ outcome' = Returned(generate_recommendations(
                                       fs, ProblematicList(N)))
    /\ pc' = "generate_recommendations"
    /\ UNCHANGED <<catalog, threshold, results, findings>>

MaxCited == 2

\* The URLs of the sources cited: without a trailing slash, with one, with
\* two.
CitedUrls == {"https://gdpr-info.eu", "https://gdpr-info.eu/", "https://gdpr-info.eu//"}

CitedCategories == {<<>>, <<"gdpr">>, <<"data_privacy", "gdpr">>}

\* The sources format_citations is given: matches of the keyword matcher,
\* a source that brings its own section_urls and one without categories.
CitedSources ==
    { [source_name        |-> "General Data Protection Regulation (GDPR)",
       source_url         |-> url,
       source_description |-> "European Union regulation on data protection and privacy",
       relevance_score    |-> 800,
       matched_categories |-> categories] :
        url \in CitedUrls, categories \in CitedCategories }
    \cup
    { [source_name        |-> "General Data Protection Regulation (GDPR)",
       source_url         |-> "https://gdpr-info.eu",
       source_description |-> "European Union regulation on data protection and privacy",
       relevance_score    |-> 800,
       matched_categories |-> <<"gdpr">>,
       section_urls       |-> [gdpr |-> "https://gdpr-info.eu/art-5-gdpr/"]],
      [source_name        |-> "General Data Protection Regulation (GDPR)",
       source_url         |-> "https://gdpr-info.eu",
       source_description |-> "European Union regulation on data protection and privacy",
       relevance_score    |-> 800] }

\* A call format_citations(sources).
FormatCitations ==
    /\ pc = "idle"
    /\ \E N \in 1..MaxCited :
         \E sources \in [1..N -> CitedSources] :
            /\ frame' = [sources |-> sources]
            /\ outcome' = Returned(format_citations(sources))
    /\ pc' = "format_citations"
    /\ UNCHANGED <<catalog, text, threshold, results, findings>>

\* The texts whose preview is computed: empty and blank ones, PDF headers,
\* markup, binary remnants, encoded data and prose.
PreviewTexts ==
    { "", "  \t\n ", "\f",
      SOH \o "   ",
      SOH \o SOH,
      SOH \o SOH \o "abc def",
      SOH \o SOH \o SOH \o SOH \o " Confidential agreement between parties",
      Repeat(SOH, 30) \o " Confidential agreement between parties",
      "%PDF-1.6 % 443 0 obj",
      "%PDF-1.4 Title(Annual Report) Author(J. Doe)",
      "%PDF-1.4 Title(" \o Repeat("Annual Report ", 8) \o ")",
      "  %PDF-1.4 Title(a" \o SOH \o "b)",
      "<a>hi</a>",
      "<a>x" \o SOH \o "y</a>",
      "<a>x\ny</a>",
      "<p>Data protection policy</p><p>second part</p>",
      "<p>Data " \o SOH \o " policy</p><p>second part of the text</p>",
      "<b></b> and text that goes on beyond the limit",
      "1 0 obj << /Type >> endobj",
      "stream abc endstream",
      "data:image/png;base64,AAAA",
      "raw \\x41\\x42",
      "Normal" \o SOH \o "text here",
      "a\fb",
      "The quick brown fox jumps over the lazy dog",
      Repeat("A", 46),
      Repeat("The quick brown fox. ", 6) }

PreviewLengths == {0, 10, 30, PreviewLength}

\* A call clean_text_for_preview(text, max_length).
CleanTextForPreview ==
    /\ pc = "idle"
    /\ \E t \in PreviewTexts, max_len \in PreviewLengths :
            /\ text' = t
            /\ frame' = [max_length |-> max_len]
            /\ outcome' = Returned(clean_text_for_preview(t, max_len))
    /\ pc' = "clean_text_for_preview"
    /\ UNCHANGED <<catalog, threshold, results, findings>>

CallNext ==
    \/ ExtractContext
    \/ AnalyzeDocumentSections
    \/ PlanSections
    \/ GenerateDetailedSummary
    \/ GenerateRecommendations
    \/ FormatCitations
    \/ CleanTextForPreview

CallSpec == CallInit /\ [][CallNext]_vars

(***************************************************************************)
(* Concurrent invocations of analyze_document.  Each invocation has its    *)
(* own text, position, frame and outcome; REGULATORY_SOURCES, a module     *)
(* global, is the one object every invocation reads.  An invocation's step *)
(* is a function of the shared catalog as it is at that moment, of the     *)
(* invocation's own state and of what the environment answers (the         *)
(* classifier, the agent search).                                          *)
(***************************************************************************)
Invocations == {1, 2}

ConcurrentDocuments ==
    { "   ",
      "Money laundering is a breach.",
      "Payment processing terms." }

\* The state of an invocation that has just been called with the text t.
Invoked(t) == [text |-> t, pc |-> "start", frame |-> NoFrame, outcome |-> Returned(<<>>)]

NoInput == [kind |-> "none"]

ClassifierRaises == { [kind |-> "raise", message |-> e] : e \in ClassifierErrors }

ClassifierInputs(labels) ==
    { [kind |-> "answer", answer |-> a] : a \in ClassifierAnswers(labels) }

\* The answer the classifier gives every section and the compatibility
\* call of the interleaved invocations.
SectionAnswer == [labels |-> COMPLIANCE_LABELS, scores |-> <<900, 100>>]

\* What the environment may hand the invocation at its next step: the
\* document-level call may raise or give either answer, the agent search
\* is unavailable or returns a list, each relevance call gives either
\* answer, a section call raises or answers.
InputsAt(local) ==
    CASE local.pc = "start"    -> {NoInput}
      [] local.pc = "classify" -> ClassifierRaises \cup ClassifierInputs(COMPLIANCE_LABELS)
      [] local.pc = "check"    ->
            { [kind |-> "agent", agent |-> a] :
                a \in {x \in AgentOutcomes : ~x.available \/ (~x.raised /\ x.value # <<>>)} }
      [] local.pc = "keyword"  -> {NoInput}
      [] local.pc = "citations" ->
            IF local.frame.match_index <= Len(local.frame.keyword_matches)
            THEN ClassifierInputs(RELEVANCE_LABELS) ELSE {NoInput}
      [] local.pc = "sections" ->
            IF Len(local.frame.section_results)
                 < NumSections(SectionInput(local.frame), local.frame.section_size)
            THEN ClassifierRaises \cup {[kind |-> "answer", answer |-> SectionAnswer]}
            ELSE {NoInput}
      [] local.pc = "compat"   -> {[kind |-> "answer", answer |-> SectionAnswer]}
      [] OTHER                 -> {}

\* The except clause of lines 165-172 reached from `site`.
Failed(local, site, index, message) ==
    [local EXCEPT !.pc = "done",
                  !.frame.raised_at = [site |-> site, index |-> index],
                  !.outcome = HandleException(message)]

\* One step of analyze_document(text) by an invocation in state `local`,
\* reading the catalog `sources`, the environment answering `input`.
Advance(sources, local, input) ==
    LET f == local.frame
    IN  CASE local.pc = "start" ->
               \* Lines 78-99.
               IF local.text = "" \/ IsBlank(local.text)
               THEN [local EXCEPT !.pc = "done", !.outcome = Returned(EmptyResult)]
               ELSE [local EXCEPT
                       !.pc = "classify",
                       !.frame = [f EXCEPT !.full_text = local.text,
                                           !.original_length = Len(local.text),
                                           !.truncated = Len(local.text) > max_length,
                                           !.text = Truncate(local.text)]]
          [] local.pc = "classify" ->
               \* Lines 104-107.
               IF input.kind = "raise" THEN Failed(local, "document", 0, input.message)
               ELSE [local EXCEPT
                       !.pc = "check",
                       !.frame = [f EXCEPT
                                    !.status = analyze_compliance(input.answer).label,
                                    !.confidence = analyze_compliance(input.answer).confidence,
                                    !.findings = extract_key_findings(f.text)]]
          [] local.pc = "check" ->
               \* Line 110: check_against_public_data(text).
               LET checks == check_against_public_data(input.agent,
                                 search_regulatory_sources(sources, f.text, DefaultThreshold))
               IN  IF checks.raised THEN Failed(local, "catalog", 0, "KeyError")
                   ELSE [local EXCEPT
                           !.pc = "keyword",
                           !.frame = [f EXCEPT !.agent = input.agent,
                                               !.public_data_checks = checks.value]]
          [] local.pc = "keyword" ->
               \* ai_models 183: the keyword matches of generate_enhanced_citations.
               LET km == search_regulatory_sources(sources, f.text, KeywordMatchThreshold)
               IN  IF km.raised THEN Failed(local, "catalog", 0, "KeyError")
                   ELSE [local EXCEPT !.pc = "citations",
                                      !.frame = [f EXCEPT !.keyword_matches = km.value]]
          [] local.pc = "citations" ->
               \* ai_models 188-220 and compliance 117-122.
               IF input.kind = "raise"
               THEN Failed(local, "citations", f.match_index, input.message)
               ELSE IF input.kind = "answer"
               THEN [local EXCEPT
                       !.frame = [f EXCEPT
                          !.enhanced_matches =
                              EnhanceStep(@, f.keyword_matches[f.match_index], input.answer),
                          !.transformer_scores = Append(@, TransformerScore(input.answer)),
                          !.match_index = @ + 1]]
               ELSE [local EXCEPT
                       !.pc = "sections",
                       !.frame = [f EXCEPT
                          !.enhanced_matches = SortByRelevance(@),
                          !.section_size = SectionSize(f.original_length)]]
          [] local.pc = "sections" ->
               \* ai_models 57-68 and compliance 132-149.
               LET n == Len(f.section_results) + 1
               IN  IF input.kind = "raise"
                   THEN Failed(local, "sections", n, input.message)
                   ELSE IF input.kind = "answer"
                   THEN [local EXCEPT
                           !.frame = [f EXCEPT
                              !.section_results =
                                  Append(@, SectionResult(n,
                                      clean_text_for_preview(
                                          Section(SectionInput(f), f.section_size, n),
                                          PreviewLength),
                                      input.answer))]]
                   ELSE [local EXCEPT
                           !.pc = "compat",
                           !.frame = [f EXCEPT
                              !.analysis_result =
                                  AnalysisResult(f,
                                      generate_detailed_summary(f.section_results,
                                          f.findings, f.public_data_checks))]]
          [] local.pc = "compat" ->
               \* Lines 152-163.
               IF input.kind = "raise" THEN Failed(local, "compat", 0, input.message)
               ELSE [local EXCEPT
                       !.pc = "done",
                       !.outcome = Returned(FinalResult(f.analysis_result, input.answer,
                                                        f.truncated))]
          [] OTHER -> local

\* A step that consumes the first catalog entry it reads.
SourcesAfter_Consumed(p, sources) ==
    IF p = "check" /\ Len(sources) > 2 THEN Tail(sources) ELSE sources

\* The catalog after a step at position p: no statement of analyze_document
\* or of the functions it calls assigns to REGULATORY_SOURCES or to one of
\* its entries (search_regulatory_sources only reads source[...], and the
\* related-term table is rebuilt by every call of _get_related_terms).
SourcesAfter(p, sources) == sources

ConcurrentInit ==
    /\ catalog = REGULATORY_SOURCES
    /\ text \in [Invocations -> ConcurrentDocuments]
    /\ pc = [i \in Invocations |-> "start"]
    /\ frame = [i \in Invocations |-> NoFrame]
    /\ outcome = [i \in Invocations |-> Returned(<<>>)]
    /\ results = [i \in Invocations |-> <<>>]
    /\ threshold = DefaultThreshold
    /\ findings = <<>>

\* The state of invocation i.
Local(i) == [text |-> text[i], pc |-> pc[i], frame |-> frame[i], outcome |-> outcome[i]]

\* Invocation i, at position p, takes its next step; results[i] keeps what
\* the environment answered it.
Run(i, p) ==
    /\ pc[i] = p
    /\ \E input \in InputsAt(Local(i)) :
         \E next \in {Advance(catalog, Local(i), input)} :
            /\ pc' = [pc EXCEPT ![i] = next.pc]
            /\ frame' = [frame EXCEPT ![i] = next.frame]
            /\ outcome' = [outcome EXCEPT ![i] = next.outcome]
            /\ results' = [results EXCEPT ![i] = Append(@, input)]
    /\ catalog' = SourcesAfter(p, catalog)
    /\ UNCHANGED <<text, threshold, findings>>

InvocationStarts(i)     == Run(i, "start")
InvocationClassifies(i) == Run(i, "classify")
InvocationChecks(i)     == Run(i, "check")
InvocationMatches(i)    == Run(i, "keyword")
InvocationCites(i)      == Run(i, "citations")
InvocationSections(i)   == Run(i, "sections")
InvocationCompat(i)     == Run(i, "compat")

ConcurrentNext ==
    \E i \in Invocations :
        \/ InvocationStarts(i)
        \/ InvocationClassifies(i)
        \/ InvocationChecks(i)
        \/ InvocationMatches(i)
        \/ InvocationCites(i)
        \/ InvocationSections(i)
        \/ InvocationCompat(i)

ConcurrentSpec == ConcurrentInit /\ [][ConcurrentNext]_vars

(***************************************************************************)
(* api/endpoints/documents.py and utils/database.py: the upload, status    *)
(* and delete handlers and the background task.  The state of the service  *)
(* is kept in `frame`: whether a Supabase client was created at import,    *)
(* the records of local_db/ and of the Supabase table "risks", the files   *)
(* of uploads/, the background tasks not yet run, the document ids         *)
(* answered with 202, the ids whose task has run, and the paths the last   *)
(* handler read or removed.  `pc` names the last handler, `text` the       *)
(* document_id of the last request, `outcome` the last response.           *)
(***************************************************************************)
\* UUID_PATTERN of line 26 against the 36 characters of s.
MatchesUuidBody(s) ==
    /\ Len(s) = 36
    /\ \A i \in 1..36 :
         IF i \in {9, 14, 19, 24} THEN SubSeq(s, i, i) = "-"
         ELSE IsHexDigit(SubSeq(s, i, i))

\* is_valid_uuid(uuid_string): UUID_PATTERN.match, whose $ also matches
\* just before a newline that ends the string.
is_valid_uuid(uuid_string) ==
    \/ MatchesUuidBody(uuid_string)
    \/ /\ Len(uuid_string) = 37
       /\ SubSeq(uuid_string, 37, 37) = "\n"
       /\ MatchesUuidBody(SubSeq(uuid_string, 1, 36))

\* The values uuid.uuid4() gives the uploads.
IssuedIds ==
    { "123e4567-e89b-42d3-a456-426614174000",
      "0f8e7d6c-5b4a-4321-8765-0fedcba98765" }

\* The document_id of the status and delete requests.
RequestIds ==
    IssuedIds
    \cup { "123E4567-E89B-42D3-A456-426614174000",
           "not-a-uuid",
           "123e4567e89b42d3a456426614174000",
           "123e4567-e89b-42d3-a456-42661417400g",
           "123e4567-e89b-42d3-a456-426614174000\n" }

\* file_path of an upload of text content: None.
None == ""

\* os.path.join(UPLOAD_DIR, unique_filename) of the file uploaded with the
\* document d (the name is a uuid4 of its own).
UploadPath(d) == "uploads/file-of-" \o d \o ".txt"

\* os.path.join("local_db", f"{document_id}.json")
LocalDbPath(document_id) == "local_db/" \o document_id \o ".json"

\* analysis_result["status"] of analyze_document(content).
AnalysisStatuses == {"compliant", "non-compliant", "error"}

\* database.py 46-57 and 92-102: the JSON file of a record, written over
\* the file of the same name.
WriteLocal(local_db, id, file_path, status) ==
    {r \in local_db : r.id # id}
    \cup {[id |-> id, file_path |-> file_path, status |-> status,
           details |-> [status |-> status]]}

\* database.py 41-78: store_analysis_result on the service state s; insert
\* tells whether the Supabase insert returned a row.
store_analysis_result(s, id, file_path, status, insert) ==
    IF ~s.supabase
    THEN [s EXCEPT !.local_db = WriteLocal(@, id, file_path, status)]
    ELSE IF insert = "row"
    THEN [s EXCEPT !.risks = @ \cup {[id |-> id, file_path |-> file_path,
                                      status |-> status,
                                      details |-> [status |-> status]]}]
    ELSE [s EXCEPT !.local_db = WriteLocal(@, id, file_path, status)]

\* What the Supabase insert may do: return the row, or raise or return no
\* data.
InsertOutcomes == {"row", "error"}

\* Lines 170-202: the response of get_analysis_status(document_id).  The
\* HTTPException of line 173 is raised inside the try block and is an
\* Exception: the except clause of line 201 catches it.
get_analysis_status(s, document_id) ==
    IF ~is_valid_uuid(document_id)
    THEN [status_code |-> 500,
          detail |-> "Error retrieving analysis status: "
                     \o "400: Invalid document ID format"]
    ELSE IF \E r \in s.local_db : r.id = document_id
    THEN [status_code |-> 200,
          body |-> [status |-> "completed",
                    result |-> CHOOSE r \in s.local_db : r.id = document_id]]
    ELSE [status_code |-> 200, body |-> [status |-> "pending"]]

ServiceInit ==
    /\ catalog = REGULATORY_SOURCES
    /\ threshold = DefaultThreshold
    /\ results = Returned(<<>>)
    /\ findings = <<>>
    /\ text = ""
    /\ pc = "idle"
    /\ outcome = [status_code |-> 0]
    /\ \E supabase \in BOOLEAN :
         frame = [supabase |-> supabase, local_db |-> {}, risks |-> {},
                  uploads |-> {}, tasks |-> {}, accepted |-> {}, ran |-> {},
                  accessed |-> {}]

\* Lines 65-163: POST /upload with text content.
UploadText ==
    /\ \E content \in {"", "   ", "Our data privacy policy."} :
         IF content = "" \/ IsBlank(content)
         THEN /\ outcome' = [status_code |-> 400,
                             detail |-> IF content = ""
                                        THEN "Either file or text content must be provided"
                                        ELSE "Text content is empty. Please provide some text to analyze."]
              /\ frame' = [frame EXCEPT !.accessed = {}]
              /\ text' = ""
         ELSE \E document_id \in IssuedIds \ frame.accepted :
                /\ frame' = [frame EXCEPT
                               !.tasks = @ \cup {[file_path |-> None,
                                                  document_id |-> document_id]},
                               !.accepted = @ \cup {document_id},
                               !.accessed = {}]
                /\ outcome' = [status_code |-> 202,
                               body |-> [message |-> "Document received and being processed",
                                         document_id |-> document_id]]
                /\ text' = document_id
    /\ pc' = "upload_document_form"
    /\ UNCHANGED <<catalog, threshold, results, findings>>

\* Lines 97-163: POST /upload with a file: refused by validate_file; saved
\* but without readable content (the HTTPException of line 126 is caught
\* at line 134); or saved and queued.
UploadFile ==
    /\ \E file \in {"invalid", "unreadable", "readable"} :
         IF file = "invalid"
         THEN /\ outcome' = [status_code |-> 400, detail |-> "validate_file"]
              /\ frame' = [frame EXCEPT !.accessed = {}]
              /\ text' = ""
         ELSE \E document_id \in IssuedIds \ frame.accepted :
                IF file = "unreadable"
                THEN /\ outcome' = [status_code |-> 500,
                                    detail |-> "Error processing uploaded file: "
                                               \o "400: Could not extract readable content from file: "]
                     /\ frame' = [frame EXCEPT
                                    !.uploads = @ \cup {UploadPath(document_id)},
                                    !.accessed = {UploadPath(document_id)}]
                     /\ text' = ""
                ELSE /\ frame' = [frame EXCEPT
                                    !.uploads = @ \cup {UploadPath(document_id)},
                                    !.tasks = @ \cup {[file_path |-> UploadPath(document_id),
                                                       document_id |-> document_id]},
                                    !.accepted = @ \cup {document_id},
                                    !.accessed = {UploadPath(document_id)}]
                     /\ outcome' = [status_code |-> 202,
                                    body |-> [message |-> "Document received and being processed",
                                              document_id |-> document_id]]
                     /\ text' = document_id
    /\ pc' = "upload_document_form"
    /\ UNCHANGED <<catalog, threshold, results, findings>>

\* Lines 322-356: the background task of one accepted upload.
ProcessDocument ==
    /\ \E task \in frame.tasks, status \in AnalysisStatuses,
          insert \in InsertOutcomes :
         LET stored == store_analysis_result(frame, task.document_id,
                                             task.file_path, status, insert)
         IN  frame' = [stored EXCEPT !.tasks = @ \ {task},
                                     !.ran = @ \cup {task.document_id}]
    /\ UNCHANGED <<catalog, text, pc, threshold, results, findings, outcome>>

\* Lines 165-202: GET /status/{document_id}.
GetAnalysisStatus ==
    /\ \E document_id \in RequestIds :
         /\ text' = document_id
         /\ outcome' = get_analysis_status(frame, document_id)
         /\ frame' = [frame EXCEPT
                        !.accessed =
                            IF is_valid_uuid(document_id)
                               /\ \E r \in frame.local_db : r.id = document_id
                            THEN {LocalDbPath(document_id)} ELSE {}]
    /\ pc' = "get_analysis_status"
    /\ UNCHANGED <<catalog, threshold, results, findings>>

\* Lines 358-391: DELETE /{document_id}.
DeleteDocument ==
    /\ \E document_id \in RequestIds :
         /\ text' = document_id
         /\ IF ~is_valid_uuid(document_id)
            THEN /\ outcome' = [status_code |-> 400,
                                detail |-> "Invalid document ID format"]
                 /\ frame' = [frame EXCEPT !.accessed = {}]
            ELSE IF ~\E r \in frame.local_db : r.id = document_id
            THEN /\ outcome' = [status_code |-> 404, detail |-> "Document not found"]
                 /\ frame' = [frame EXCEPT !.accessed = {}]
            ELSE LET document_data == CHOOSE r \in frame.local_db : r.id = document_id
                     file_path     == document_data.file_path
                     removed       == IF file_path # None /\ file_path \in frame.uploads
                                      THEN {file_path} ELSE {}
                 IN  /\ outcome' = [status_code |-> 200,
                                    body |-> [message |-> "Document deleted successfully"]]
                     /\ frame' = [frame EXCEPT
                                    !.uploads = @ \ removed,
                                    !.local_db = @ \ {document_data},
                                    !.accessed = {LocalDbPath(document_id)} \cup removed]
    /\ pc' = "delete_document"
    /\ UNCHANGED <<catalog, threshold, results, findings>>

ServiceNext ==
    \/ UploadText
    \/ UploadFile
    \/ ProcessDocument
    \/ GetAnalysisStatus
    \/ DeleteDocument

ServiceSpec == ServiceInit /\ [][ServiceNext]_vars

\* Starlette runs the background tasks of a response once it has been
\* sent: a queued task is not postponed for ever.
FairServiceSpec == ServiceSpec /\ WF_vars(ProcessDocument)

(***************************************************************************)
(* utils/openai_manager.py: the token budget of one OpenAIManager and the  *)
(* calls of call_openai_with_retry made through it.  A call checks the     *)
(* budget, waits for the API, and records the usage; other calls may run   *)
(* while it waits and between the read and the write of                    *)
(* `self.used_tokens += tokens`.  Tokens are counted in thousands and the  *)
(* clock in days.  `frame` holds the TokenBudget, the clock and the        *)
(* position of every caller; `pc` names the last step and `outcome` its    *)
(* result.                                                                 *)
(***************************************************************************)
\* The threads calling call_openai_with_retry.
Callers == {1, 2}

\* max_daily_tokens of the budget.
MaxDailyTokens == 5

\* _estimate_tokens(str(messages)) of the calls made; every estimate is
\* within the context window of the first model.
Estimates == {1, 2}

\* max_tokens: the most a completion adds to the prompt's tokens.
MaxCompletion == 2

\* The last day of the clock.
MaxDay == 2

\* usage.total_tokens of a response to a prompt estimated at estimated
\* tokens; a response without usage counts as the estimate.
TotalTokens(estimated) == 1..(estimated + MaxCompletion)

\* TokenBudget.__init__ at time now.
TokenBudget(max_daily_tokens, now) ==
    [max_daily_tokens |-> max_daily_tokens, used_tokens |-> 0,
     reset_time |-> now + 1]

\* The budget after the reset test of can_use_tokens at time now.
AfterReset(budget, now) ==
    IF now > budget.reset_time
    THEN [budget EXCEPT !.used_tokens = 0, !.reset_time = now + 1]
    ELSE budget

\* The value returned by can_use_tokens, on the budget after the reset test.
can_use_tokens(budget, estimated_tokens) ==
    budget.used_tokens + estimated_tokens <= budget.max_daily_tokens

Idle == [at |-> "idle"]

BudgetInit ==
    /\ catalog = REGULATORY_SOURCES
    /\ threshold = DefaultThreshold
    /\ results = Returned(<<>>)
    /\ findings = <<>>
    /\ text = ""
    /\ pc = "idle"
    /\ outcome = Returned("")
    /\ frame = [token_budget |-> TokenBudget(MaxDailyTokens, 0),
                now |-> 0,
                callers |-> [c \in Callers |-> Idle]]

\* Lines 128-136: the estimate and the budget check of one call; a refused
\* call raises.
CheckBudget(c) ==
    /\ frame.callers[c] = Idle
    /\ \E estimated_tokens \in Estimates :
         LET budget == AfterReset(frame.token_budget, frame.now)
         IN  IF can_use_tokens(budget, estimated_tokens)
             THEN /\ frame' = [frame EXCEPT
                                 !.token_budget = budget,
                                 !.callers[c] = [at |-> "create",
                                                 estimated_tokens |-> estimated_tokens]]
                  /\ outcome' = Returned("admitted")
             ELSE /\ frame' = [frame EXCEPT !.token_budget = budget]
                  /\ outcome' = Raised
    /\ pc' = "can_use_tokens"
    /\ UNCHANGED <<catalog, text, threshold, results, findings>>

\* Lines 141-152: the API answers, and the call reads used_tokens.
CreateCompletion(c) ==
    /\ frame.callers[c].at = "create"
    /\ \E total_tokens \in TotalTokens(frame.callers[c].estimated_tokens) :
         frame' = [frame EXCEPT
                     !.callers[c] = [at |-> "add", tokens |-> total_tokens,
                                     read |-> frame.token_budget.used_tokens]]
    /\ pc' = "create"
    /\ outcome' = Returned("response")
    /\ UNCHANGED <<catalog, text, threshold, results, findings>>

\* Lines 141-147 and 156-163: the API raises; nothing is recorded.
CreateFails(c) ==
    /\ frame.callers[c].at = "create"
    /\ frame' = [frame EXCEPT !.callers[c] = Idle]
    /\ pc' = "create"
    /\ outcome' = Raised
    /\ UNCHANGED <<catalog, text, threshold, results, findings>>

\* Lines 261-263: the write of add_used_tokens, and the return of the call.
AddUsedTokens(c) ==
    /\ frame.callers[c].at = "add"
    /\ frame' = [frame EXCEPT
                   !.token_budget.used_tokens =
                       frame.callers[c].read + frame.callers[c].tokens,
                   !.callers[c] = Idle]
    /\ pc' = "add_used_tokens"
    /\ outcome' = Returned("response")
    /\ UNCHANGED <<catalog, text, threshold, results, findings>>

\* datetime.now() moves on by a day.
Tick ==
    /\ frame.now < MaxDay
    /\ frame' = [frame EXCEPT !.now = @ + 1]
    /\ pc' = "tick"
    /\ UNCHANGED <<catalog, text, threshold, results, findings, outcome>>

BudgetNext ==
    \/ \E c \in Callers :
        \/ CheckBudget(c)
        \/ CreateCompletion(c)
        \/ CreateFails(c)
        \/ AddUsedTokens(c)
    \/ Tick

BudgetSpec == BudgetInit /\ [][BudgetNext]_vars

(***************************************************************************)
(* Properties of search_regulatory_sources and extract_key_findings,       *)
(* checked under MatchSpec.                                                *)
(***************************************************************************)
Searched  == pc \in {"searched", "both"}
Extracted == pc \in {"extracted", "both"}

\* The catalog entry a match was made from (titles are distinct).
CatalogIndex(source_name) ==
    CHOOSE i \in 1..Len(REGULATORY_SOURCES) :
        REGULATORY_SOURCES[i].title = source_name

\* The position in results of the match of catalog entry i, 0 when absent.
ResultIndex(i) ==
    IF \E j \in 1..Len(results.value) :
          results.value[j].source_name = REGULATORY_SOURCES[i].title
    THEN CHOOSE j \in 1..Len(results.value) :
          results.value[j].source_name = REGULATORY_SOURCES[i].title
    ELSE 0

Indicator(b) == IF b THEN 1 ELSE 0

RECURSIVE SumOver(_, _)
SumOver(f, n) == IF n = 0 THEN 0 ELSE f[n] + SumOver(f, n - 1)

\* The score of the specification's formula, before the cap, for a source
\* and a text: every test is a substring test on the lower-cased text.
FormulaScore(source, t) ==
    LET tl    == Lower(t)
        cats  == source.categories
        terms == get_related_terms(source.keyword)
        percat == [c \in 1..Len(cats) |->
                     300 * Indicator(Contains(Replace(cats[c], "_", " "), tl))
                   + 300 * Indicator(Contains(cats[c], tl))]
    IN    500 * Indicator(Contains(Lower(source.keyword), tl))
        + SumOver(percat, Len(cats))
        + 400 * Indicator(Contains(Lower(source.title), tl))
        + 200 * Indicator(\E k \in 1..Len(terms) : Contains(Lower(terms[k]), tl))

\* C3: every match returned by search_regulatory_sources, for every text and
\* every threshold, has a relevance_score within [0, 1].
C3_ScoreWithinUnitInterval ==
    Searched =>
        /\ ~results.raised
        /\ \A j \in 1..Len(results.value) :
              /\ results.value[j].relevance_score >= 0
              /\ results.value[j].relevance_score <= 1000

\* A match whose score before the cap exceeded 1.0 was returned.
C3_Witness ==
    /\ Searched
    /\ \E j \in 1..Len(results.value) :
          /\ results.value[j].relevance_score = 1000
          /\ FormulaScore(REGULATORY_SOURCES[CatalogIndex(results.value[j].source_name)],
                          text) > 1000

\* C4: the returned list is ordered by non-increasing relevance_score, and
\* matches of equal relevance_score (equal after the cap) are in catalog
\* declaration order.
C4_SortedAndStable ==
    Searched =>
        \A i, j \in 1..Len(results.value) :
            i < j =>
              \/ results.value[i].relevance_score > results.value[j].relevance_score
              \/ /\ results.value[i].relevance_score = results.value[j].relevance_score
                 /\ CatalogIndex(results.value[i].source_name)
                      < CatalogIndex(results.value[j].source_name)

\* Two matches tie only through the cap, and a source declared later in the
\* catalog is placed ahead of one declared earlier.
C4_Witness ==
    /\ Searched
    /\ \E i, j \in 1..Len(results.value) :
          /\ i < j
          /\ results.value[i].relevance_score = 1000
          /\ results.value[j].relevance_score = 1000
          /\ FormulaScore(REGULATORY_SOURCES[CatalogIndex(results.value[i].source_name)], text)
               # FormulaScore(REGULATORY_SOURCES[CatalogIndex(results.value[j].source_name)], text)
    /\ \E i, j \in 1..Len(results.value) :
          /\ i < j
          /\ CatalogIndex(results.value[i].source_name)
               > CatalogIndex(results.value[j].source_name)

\* C5: a catalog source is in the result if and only if its final score (the
\* capped score, the relevance_score reported) is >= threshold; so every
\* returned match has relevance_score >= threshold.
C5_RetainedIffFinalScoreReachesThreshold ==
    Searched =>
        /\ \A j \in 1..Len(results.value) :
              results.value[j].relevance_score >= threshold
        /\ \A i \in 1..Len(REGULATORY_SOURCES) :
              (ResultIndex(i) # 0)
                <=> (Min(1000, FormulaScore(REGULATORY_SOURCES[i], text)) >= threshold)

\* C6: the score of every returned source is min(1, 0.5 keyword + 0.3 per
\* category test that succeeds (spaced and underscored form each) + 0.4
\* title + 0.2 once for the related terms); a source whose title is in the
\* text is returned with at least 0.4 whenever the threshold allows 0.4.
C6_ScoreFormula ==
    Searched =>
        /\ \A j \in 1..Len(results.value) :
              results.value[j].relevance_score =
                  Min(1000, FormulaScore(
                      REGULATORY_SOURCES[CatalogIndex(results.value[j].source_name)],
                      text))
        /\ \A i \in 1..Len(REGULATORY_SOURCES) :
              (Contains(Lower(REGULATORY_SOURCES[i].title), Lower(text))
                 /\ threshold <= 400)
              => /\ ResultIndex(i) # 0
                 /\ results.value[ResultIndex(i)].relevance_score >= 400

\* A returned source, below the cap, with two of its related terms in the
\* text, and a returned source whose title is in the text.
C6_Witness ==
    /\ Searched
    /\ \E j \in 1..Len(results.value) :
          LET src == REGULATORY_SOURCES[CatalogIndex(results.value[j].source_name)]
              terms == get_related_terms(src.keyword)
          IN  /\ results.value[j].relevance_score < 1000
              /\ Cardinality({k \in 1..Len(terms) :
                                Contains(Lower(terms[k]), Lower(text))}) >= 2
    /\ \E j \in 1..Len(results.value) :
          Contains(Lower(results.value[j].source_name), Lower(text))

\* The findings of a risk level for a keyword.
HasFinding(risk_level, keyword) ==
    \E j \in 1..Len(findings) :
        /\ findings[j].risk_level = risk_level
        /\ findings[j].finding = "Contains reference to '" \o keyword \o "'"

ExampleText == "This document describes a data privacy breach penalty under GDPR."
GdprIndex   == CatalogIndex("General Data Protection Regulation (GDPR)")

\* Both calls made on the example text, the search with its default threshold.
ExampleAnalysed ==
    /\ pc = "both"
    /\ text = ExampleText
    /\ threshold = DefaultThreshold

\* The findings the example must give: 'breach' and 'penalty' at high risk,
\* nothing at medium risk.
ExampleFindings ==
    /\ HasFinding("high_risk", "breach")
    /\ HasFinding("high_risk", "penalty")
    /\ \A j \in 1..Len(findings) : findings[j].risk_level # "medium_risk"

\* C7 as stated: on the example text the GDPR source is matched with the
\* +0.5 keyword and the +0.4 title contributions both in its score, and the
\* findings are 'breach' and 'penalty' at high risk, none at medium risk.
C7_KeywordAndTitleContributions ==
    ExampleAnalysed =>
        /\ ResultIndex(GdprIndex) # 0
        /\ results.value[ResultIndex(GdprIndex)].relevance_score >= 500 + 400
        /\ ExampleFindings

\* C7 amended: on the example text the GDPR source is matched with score
\* 0.8, the +0.5 keyword contribution and the +0.3 of its category
\* data_privacy; the title, of which the text holds only the acronym, adds
\* nothing.  The findings are as stated.
C7_KeywordAndCategoryContributions ==
    ExampleAnalysed =>
        /\ ResultIndex(GdprIndex) # 0
        /\ results.value[ResultIndex(GdprIndex)].relevance_score = 500 + 300
        /\ results.value[ResultIndex(GdprIndex)].matched_categories = <<"data_privacy">>
        /\ ~Contains(Lower(REGULATORY_SOURCES[GdprIndex].title), Lower(text))
        /\ ExampleFindings

C7_Witness ==
    /\ ExampleAnalysed
    /\ ResultIndex(GdprIndex) = 1
    /\ Len(findings) = 2

\* Every term of the vocabulary, tier by tier in declared order.
AllTerms ==
    [n \in 1..29 |->
        IF n <= 10 THEN [risk_level |-> "high_risk",
                         keyword |-> compliance_keywords[1].keywords[n]]
        ELSE IF n <= 20 THEN [risk_level |-> "medium_risk",
                              keyword |-> compliance_keywords[2].keywords[n - 10]]
        ELSE [risk_level |-> "low_risk",
              keyword |-> compliance_keywords[3].keywords[n - 20]]]

\* The terms that occur in the text, by their place in AllTerms.
HitsOf(text_lower) == {n \in 1..29 : Contains(AllTerms[n].keyword, text_lower)}
Hits == UNION { HitsOf(text_lower) : text_lower \in {Lower(text)} }

\* The number of hits ahead of term n.
Before(hits, n) == Cardinality({m \in hits : m < n})
HitsBefore(n)   == Before(Hits, n)

\* C9: extract_key_findings returns the first 10 (all, if fewer) of the hits
\* taken tier by tier and term by term in declared order, one finding per
\* term occurring in the text; never more than 10, the later tiers cut.
C9_FirstTenHitsInDeclaredOrder ==
    Extracted =>
        \A hits \in {Hits} :
            /\ Len(findings) = Min(10, Cardinality(hits))
            /\ \A n \in hits :
                  \A place \in {Before(hits, n) + 1} :
                      place <= 10 =>
                        /\ findings[place].finding
                             = "Contains reference to '" \o AllTerms[n].keyword \o "'"
                        /\ findings[place].risk_level = AllTerms[n].risk_level

\* More than 10 terms occur and a term of a later tier was cut.
C9_Witness ==
    /\ Extracted
    /\ Cardinality(Hits) > 10
    /\ Len(findings) = 10
    /\ \E n \in Hits : n > 10 /\ ~HasFinding(AllTerms[n].risk_level, AllTerms[n].keyword)

\* C10 as stated: whenever the text contains 'non-compliance' there is a
\* high-risk finding for 'non-compliance' and a medium-risk finding for
\* 'compliance', whatever else the text contains.
C10_BothFindingsAlways ==
    (Extracted /\ Contains("non-compliance", Lower(text))) =>
        /\ HasFinding("high_risk", "non-compliance")
        /\ HasFinding("medium_risk", "compliance")

\* C10 amended: the high-risk finding for 'non-compliance' is always there;
\* the medium-risk finding for 'compliance' is there exactly when fewer than
\* 10 terms ahead of 'compliance' in declared order occur in the text.
C10_BothFindingsUnlessCut ==
    (Extracted /\ Contains("non-compliance", Lower(text))) =>
        /\ HasFinding("high_risk", "non-compliance")
        /\ HasFinding("medium_risk", "compliance") <=> (HitsBefore(18) < 10)

C10_Witness ==
    /\ Extracted
    /\ Contains("non-compliance", Lower(text))
    /\ HasFinding("high_risk", "non-compliance")
    /\ HasFinding("medium_risk", "compliance")
    /\ Cardinality(Hits) > 2

(***************************************************************************)
(* Properties of analyze_document, checked under Spec.                     *)
(***************************************************************************)
Done == pc = "done"

AnalysisFields ==
    {"key_findings", "public_data_checks", "citations", "section_analysis",
     "detailed_summary"}

\* C1: analyze_document is total: whatever the text and whichever classifier
\* or enrichment calls fail, no exception reaches the caller, and a returned
\* result of status "error" holds status, error_message and confidence and
\* none of the analysis fields.
C1_TotalAndErrorResultBare ==
    /\ ~outcome.raised
    /\ Done =>
         /\ "status" \in DOMAIN outcome.value
         /\ outcome.value.status = "error" =>
              /\ DOMAIN outcome.value = {"status", "error_message", "confidence"}
              /\ DOMAIN outcome.value \cap AnalysisFields = {}

\* The classifier failed on the second section, after findings, citations
\* and a first section result had been computed, and the error result came
\* back.
C1_Witness ==
    /\ Done
    /\ outcome.value.status = "error"
    /\ frame.raised_at = [site |-> "sections", index |-> 2]
    /\ Len(frame.section_results) = 1
    /\ frame.findings # <<>>
    /\ frame.enhanced_matches # <<>>

\* C2: a classifier failure on one chunk does not abort the others: the
\* document result is not an error, section_analysis has an entry for every
\* chunk, and the entry of the failed chunk has status error.
C2_ChunkFailureDoesNotAbort ==
    (Done /\ frame.raised_at.site = "sections") =>
        /\ outcome.value.status # "error"
        /\ Len(outcome.value.section_analysis)
             = NumSections(SectionInput(frame), frame.section_size)
        /\ outcome.value.section_analysis[frame.raised_at.index].status = "error"

\* The call got past the empty check: the locals of lines 87-99 are set.
Analysing == frame.original_length > 0

\* C12 as stated: an input of at most max_length characters is analysed
\* unchanged with truncated false; a longer input has truncated true and is
\* analysed as its first int(0.6 * 4096) = 2457 characters followed by its
\* last int(0.4 * 4096) = 1638 characters.
C12_FirstSixtyLastFortyPercent ==
    Analysing =>
        /\ frame.truncated = (Len(text) > 4096)
        /\ Len(text) <= 4096 => frame.text = text
        /\ Len(text) > 4096 =>
             frame.text = SubSeq(text, 1, 2457)
                          \o SubSeq(text, Len(text) - 1638 + 1, Len(text))

\* C12 amended: as stated, except that the tail kept is the last
\* max_length - int(0.6 * max_length) = 1639 characters, so that the text
\* analysed has exactly max_length characters.
C12_FirstSixtyPercentAndRest ==
    Analysing =>
        /\ frame.truncated = (Len(text) > 4096)
        /\ Len(text) <= 4096 => frame.text = text
        /\ Len(text) > 4096 =>
             /\ frame.text = SubSeq(text, 1, 2457)
                             \o SubSeq(text, Len(text) - 1639 + 1, Len(text))
             /\ Len(frame.text) = 4096

\* An input of max_length + 1 characters was truncated.
C12_Witness ==
    /\ Analysing
    /\ Len(text) = 4097
    /\ frame.truncated
    /\ frame.text # text
    /\ pc = "classify"

\* C13 as stated: a result for an input longer than max_length carries
\* truncated = true and the warning, whatever the later classifier calls
\* did; a result for an input of at most max_length characters never
\* carries the warning.
C13_WarningWheneverTruncated ==
    Done =>
        /\ Len(text) > 4096 =>
             /\ "truncated" \in DOMAIN outcome.value
             /\ "warning" \in DOMAIN outcome.value
             /\ outcome.value.truncated
        /\ Len(text) <= 4096 => "warning" \notin DOMAIN outcome.value

\* C13 amended: a result whose status is not error carries truncated = true
\* and the warning, naming the original length and max_length, exactly when
\* the input was longer than max_length; a result of status error (a
\* classifier call failed, or the input was empty) carries neither, however
\* long the input was.
C13_WarningWhenTruncatedAndAnalysed ==
    Done =>
        /\ outcome.value.status # "error" =>
             /\ outcome.value.truncated = (Len(text) > 4096)
             /\ ("warning" \in DOMAIN outcome.value) = (Len(text) > 4096)
             /\ Len(text) > 4096 =>
                  /\ outcome.value.warning.original_length = Len(text)
                  /\ outcome.value.warning.max_length = 4096
        /\ outcome.value.status = "error" =>
             /\ "truncated" \notin DOMAIN outcome.value
             /\ "warning" \notin DOMAIN outcome.value

\* A truncated input was analysed to the end and the warning returned.
C13_Witness ==
    /\ Done
    /\ Len(text) = 4097
    /\ outcome.value.status # "error"
    /\ outcome.value.truncated
    /\ "warning" \in DOMAIN outcome.value

\* The input is empty or holds whitespace only.
EmptyInput ==
    \A i \in 1..Len(text) : SubSeq(text, i, i) \in {" ", "\t", "\n", "\r"}

\* C14: for an empty or whitespace-only input analyze_document returns the
\* error result with error_message 'Empty document content' straight from
\* its first statement: the call is at its start or has returned, no local
\* of the analysis was ever set and no classifier, extraction, matching or
\* enrichment call was made.
C14_EmptyInputNotProcessed ==
    EmptyInput =>
        /\ pc \in {"start", "done"}
        /\ frame = NoFrame
        /\ Done => outcome = Returned([status        |-> "error",
                                       error_message |-> "Empty document content",
                                       confidence    |-> 0])

\* A whitespace-only input was answered.
C14_Witness ==
    /\ Done
    /\ EmptyInput
    /\ Len(text) > 0
    /\ outcome.value.error_message = "Empty document content"

\* The agent-based search gave nothing: not importable, raised, or no result.
AgentFailed(agent) ==
    \/ ~agent.available
    \/ agent.raised
    \/ agent.value = <<>>

\* The document-level calls of lines 104-110 have just been made.
JustChecked == pc = "citations" /\ frame.match_index = 1

Fusing == pc = "citations"

\* C22: the fusion of generate_enhanced_citations is a pure re-weighting.
\* While the loop over the keyword matches runs, the candidates kept so far
\* are, in order, the keyword matches already visited whose combined score
\* 0.3 * keyword score + 0.7 * classifier "relevant" score reaches the
\* fusion threshold 0.3, and no other; each of them carries that combined
\* score as relevance_score and the source_name, source_url,
\* source_description and matched_categories of its keyword match; and no
\* step of the loop or of the sort changes the keyword matches.
C22_FusionIsReweighting ==
    /\ [](Fusing =>
            \A km \in {frame.keyword_matches}, ts \in {frame.transformer_scores},
               em \in {frame.enhanced_matches} :
              LET visited   == [j \in 1..(frame.match_index - 1) |-> j]
                  Keeps(j)  == 3 * km[j].relevance_score + 7 * ts[j]
                                   >= 10 * CitationThreshold
                  survivors == SelectSeq(visited, Keeps)
              IN  /\ Len(ts) = frame.match_index - 1
                  /\ Len(em) = Len(survivors)
                  /\ \A p \in 1..Len(em) :
                       LET j == survivors[p]
                       IN  /\ 10 * em[p].relevance_score
                                = 3 * km[j].relevance_score + 7 * ts[j]
                           /\ em[p].source_name = km[j].source_name
                           /\ em[p].source_url = km[j].source_url
                           /\ em[p].source_description = km[j].source_description
                           /\ em[p].matched_categories = km[j].matched_categories)
    /\ [][Fusing => frame'.keyword_matches = frame.keyword_matches]_vars

\* The loop has kept one keyword match and dropped another, and the score
\* of the kept one differs from its keyword score.
C22_Witness ==
    /\ Fusing
    /\ frame.match_index > Len(frame.keyword_matches)
    /\ frame.enhanced_matches # <<>>
    /\ Len(frame.enhanced_matches) < Len(frame.keyword_matches)
    /\ \E p \in 1..Len(frame.enhanced_matches), j \in 1..Len(frame.keyword_matches) :
         /\ frame.enhanced_matches[p].source_name = frame.keyword_matches[j].source_name
         /\ frame.enhanced_matches[p].relevance_score
              # frame.keyword_matches[j].relevance_score

\* analyze_document returned a result other than the error result, and the
\* agent search had given nothing: public_data_checks is the keyword
\* matcher's.
BaselineResult ==
    /\ Done
    /\ Analysing
    /\ outcome.value.status # "error"
    /\ AgentFailed(frame.agent)

\* The source of a citation is among the matches.
ListedIn(citation, matches) ==
    \E j \in 1..Len(matches) :
        /\ matches[j].source_name = citation.source_name
        /\ matches[j].source_url = citation.source_url

\* citation_number runs 1..N, in non-increasing order of relevance_score.
NumberedByRelevance(citations) ==
    /\ \A i \in 1..Len(citations) : citations[i].citation_number = i
    /\ \A i \in 1..(Len(citations) - 1) :
         citations[i].relevance_score >= citations[i + 1].relevance_score

\* C30 as stated: in every successful result of the baseline matcher each
\* entry of citations refers to a source that is also listed in
\* public_data_checks, and citation_number runs 1..N in non-increasing
\* order of relevance_score.
C30_CitationsAmongChecks ==
    BaselineResult =>
        /\ \A i \in 1..Len(outcome.value.citations) :
             ListedIn(outcome.value.citations[i], outcome.value.public_data_checks)
        /\ NumberedByRelevance(outcome.value.citations)

\* C30 amended: in every successful result of the baseline matcher each
\* entry of citations refers to a source the keyword matcher matches at the
\* threshold 0.2 of generate_enhanced_citations, and that source is also
\* listed in public_data_checks whenever its keyword score reaches the
\* matcher's default threshold 0.3; citation_number runs 1..N in
\* non-increasing order of relevance_score.
C30_CitationsAmongKeywordMatches ==
    BaselineResult =>
        /\ \A i \in 1..Len(outcome.value.citations) :
             \E j \in 1..Len(frame.keyword_matches) :
                /\ frame.keyword_matches[j].source_name
                       = outcome.value.citations[i].source_name
                /\ frame.keyword_matches[j].source_url
                       = outcome.value.citations[i].source_url
                /\ frame.keyword_matches[j].relevance_score >= KeywordMatchThreshold
                /\ frame.keyword_matches[j].relevance_score >= DefaultThreshold
                     => ListedIn(outcome.value.citations[i],
                                 outcome.value.public_data_checks)
        /\ NumberedByRelevance(outcome.value.citations)

\* A baseline result with two citations, of which the first is among the
\* public data checks and the second, matched on a related term only, is
\* not.
C30_Witness ==
    /\ BaselineResult
    /\ Len(outcome.value.citations) = 2
    /\ ListedIn(outcome.value.citations[1], outcome.value.public_data_checks)
    /\ ~ListedIn(outcome.value.citations[2], outcome.value.public_data_checks)
    /\ outcome.value.citations[1].relevance_score
         > outcome.value.citations[2].relevance_score

(***************************************************************************)
(* Properties of search_regulatory_sources over a malformed catalog,       *)
(* checked under CatalogSpec.                                              *)
(***************************************************************************)
\* The sequence without its element i.
WithoutEntry(seq, i) == SubSeq(seq, 1, i - 1) \o SubSeq(seq, i + 1, Len(seq))

Malformed(source) == ~(SourceFields \subseteq DOMAIN source)

\* C8: when a catalog entry lacks a required field, the search does not
\* raise and returns what it would return with that entry removed.
C8_MalformedEntrySkipped ==
    Searched =>
        \A i \in 1..Len(catalog) :
            Malformed(catalog[i]) =>
                /\ ~results.raised
                /\ results = search_regulatory_sources(WithoutEntry(catalog, i),
                                                       text, threshold)

(***************************************************************************)
(* Properties of the helper functions, checked under CallSpec.             *)
(***************************************************************************)
\* The 0-based places where keyword occurs in t, case-insensitively.
Occurrences(t, keyword) ==
    {p \in 0..(Len(t) - Len(keyword)) :
        Lower(SubSeq(t, p + 1, p + Len(keyword))) = Lower(keyword)}

FirstOf(places) == CHOOSE p \in places : \A q \in places : p <= q

\* text[max(0, p - context_size) : min(len(text), p + len(keyword) + context_size)]
Window(t, keyword, context_size, p) ==
    SubSeq(t, Max(0, p - context_size) + 1,
              Min(Len(t), p + Len(keyword) + context_size))

ContextCalled == pc = "extract_context"

\* C11 as stated: the context is the window around the first occurrence,
\* with '...' in front exactly when the window was clipped by the start of
\* the document and '...' behind exactly when it was clipped by the end.
C11_EllipsisWhereClipped ==
    ContextCalled =>
        \A places \in {Occurrences(text, frame.keyword)} :
            IF places = {} THEN outcome.value = ""
            ELSE LET p  == FirstOf(places)
                     lo == p - frame.context_size
                     hi == p + Len(frame.keyword) + frame.context_size
                 IN  outcome.value =
                        (IF lo < 0 THEN "..." ELSE "")
                        \o Window(text, frame.keyword, frame.context_size, p)
                        \o (IF hi > Len(text) THEN "..." ELSE "")

\* C11 amended: the context is the window around the first occurrence, with
\* '...' in front exactly when the window starts after the first character
\* of the document (text is left out before it) and '...' behind exactly
\* when it ends before the last character (text is left out after it); a
\* window clipped by a document boundary gets no marker on that side.  The
\* result is "" when the keyword does not occur, and later occurrences have
\* no influence.
C11_EllipsisWhereTextLeftOut ==
    ContextCalled =>
        \A places \in {Occurrences(text, frame.keyword)} :
            IF places = {} THEN outcome.value = ""
            ELSE LET p  == FirstOf(places)
                     lo == p - frame.context_size
                     hi == p + Len(frame.keyword) + frame.context_size
                 IN  outcome.value =
                        (IF lo > 0 THEN "..." ELSE "")
                        \o Window(text, frame.keyword, frame.context_size, p)
                        \o (IF hi < Len(text) THEN "..." ELSE "")

\* The keyword occurs more than once, in different case; the window around
\* the first occurrence is clipped by the start of the document and leaves
\* text out at its end.
C11_Witness ==
    /\ ContextCalled
    /\ Cardinality(Occurrences(text, frame.keyword)) >= 2
    /\ FirstOf(Occurrences(text, frame.keyword)) - frame.context_size < 0
    /\ Len(outcome.value) > 3
    /\ SubSeq(outcome.value, 1, 3) # "..."
    /\ SubSeq(outcome.value, Len(outcome.value) - 2, Len(outcome.value)) = "..."

RECURSIVE Concat(_, _)
Concat(chunks, n) == IF n = 0 THEN "" ELSE Concat(chunks, n - 1) \o chunks[n]

SectionsCalled == pc = "analyze_document_sections" /\ ~outcome.raised

\* C16: analyze_document_sections classifies contiguous, non-overlapping
\* chunks: one result per chunk, numbered 1..N without gaps; every chunk but
\* the last has exactly section_size characters, the last between 1 and
\* section_size; the chunks concatenated in order are the text; an empty
\* text gives an empty list.
C16_ChunksPartitionText ==
    SectionsCalled =>
        LET chunks == frame.sections
            N      == Len(outcome.value)
        IN  /\ Len(chunks) = N
            /\ \A n \in 1..N :
                  /\ outcome.value[n].section_number = n
                  /\ outcome.value[n].section_text
                       = clean_text_for_preview(chunks[n], 100)
                  /\ Len(chunks[n]) >= 1
                  /\ Len(chunks[n]) <= frame.section_size
                  /\ n < N => Len(chunks[n]) = frame.section_size
            /\ Concat(chunks, N) = text
            /\ text = "" => outcome.value = <<>>

\* A text split into several chunks, the last of them shorter.
C16_Witness ==
    /\ SectionsCalled
    /\ Len(outcome.value) >= 3
    /\ Len(frame.sections[Len(frame.sections)]) < frame.section_size

SectionsPlanned == pc = "plan_sections"

\* C17: the sections are cut from the un-truncated text, there are at most
\* max_sections = 10 of them, and for a document of at most 20000
\* characters they cover the whole document: no tail character is left out.
C17_SectionsCoverDocument ==
    (SectionsPlanned /\ Len(text) <= 20000) =>
        /\ Len(frame.sections) <= 10
        /\ Concat(frame.sections, Len(frame.sections)) = text

Summarised == pc = "generate_detailed_summary"

\* The number of sections of a status among those summarised.
Sectioned(st) ==
    Cardinality({i \in 1..Len(frame.section_results) :
                    frame.section_results[i].status = st})

\* The ratio r is the number num / den.
RatioIs(r, num, den) == r.num * den = num * r.den

\* C18: compliance_percentage is compliant_sections / total_sections * 100
\* for every non-empty section list, 200/3 for 2 compliant sections of 3,
\* and 0, with nothing raised, for the empty list.
C18_CompliancePercentage ==
    Summarised =>
        LET total      == Len(frame.section_results)
            percentage == outcome.value.compliance_metrics.compliance_percentage
        IN  /\ ~outcome.raised
            /\ outcome.value.compliance_metrics.compliant_sections
                 = Sectioned("compliant")
            /\ total > 0 => RatioIs(percentage, Sectioned("compliant") * 100, total)
            /\ (total = 3 /\ Sectioned("compliant") = 2) => RatioIs(percentage, 200, 3)
            /\ total = 0 => RatioIs(percentage, 0, 1)

\* Two sections of three are compliant.
C18_Witness ==
    /\ Summarised
    /\ Len(frame.section_results) = 3
    /\ Sectioned("compliant") = 2
    /\ outcome.value.compliance_metrics.compliance_percentage.num = 200

\* C19: sections of status error are left out of the compliance math:
\* non_compliant_sections counts the sections of status non-compliant, and
\* compliance_percentage is taken over the compliant and the non-compliant
\* sections only.
C19_ErrorSectionsExcluded ==
    Summarised =>
        LET metrics == outcome.value.compliance_metrics
            judged  == Sectioned("compliant") + Sectioned("non-compliant")
        IN  /\ metrics.non_compliant_sections = Sectioned("non-compliant")
            /\ judged > 0 =>
                 RatioIs(metrics.compliance_percentage,
                         Sectioned("compliant") * 100, judged)

\* The places, in section order, of the sections that are non-compliant
\* with a confidence above 0.7.
ProblemPlaces ==
    {i \in 1..Len(frame.section_results) :
        /\ frame.section_results[i].status = "non-compliant"
        /\ frame.section_results[i].confidence > 700}

\* C20: problematic_sections is the sub-list, in section order, of the
\* sections with status non-compliant and confidence strictly above 0.7,
\* each by its section_number, confidence and preview text; a non-compliant
\* section of confidence exactly 0.7 is not in it.
C20_ProblematicSections ==
    Summarised =>
        \A places \in {ProblemPlaces} :
            LET listed == outcome.value.problematic_sections
            IN  /\ Len(listed) = Cardinality(places)
                /\ \A i \in places :
                      listed[Cardinality({j \in places : j <= i})]
                        = [section_number |-> frame.section_results[i].section_number,
                           confidence     |-> frame.section_results[i].confidence,
                           preview        |-> frame.section_results[i].section_text]
                /\ \A k \in 1..Len(listed) : listed[k].confidence # 700

\* Non-compliant sections of confidence 0.7 and 0.9 and a compliant one of
\* 0.9 were summarised; one section is listed.
C20_Witness ==
    /\ Summarised
    /\ \E i, j, k \in 1..Len(frame.section_results) :
          /\ i < j
          /\ frame.section_results[i].status = "non-compliant"
          /\ frame.section_results[i].confidence = 700
          /\ frame.section_results[j].status = "non-compliant"
          /\ frame.section_results[j].confidence = 900
          /\ frame.section_results[k].status = "compliant"
          /\ frame.section_results[k].confidence = 900
    /\ Len(outcome.value.problematic_sections) = 1

Recommended == pc = "generate_recommendations"

\* The keyword a finding quotes: "Contains reference to '<keyword>'".
QuotedKeyword(finding) == SubSeq(finding.finding, 24, Len(finding.finding) - 1)

KeywordAdvisory(keyword) ==
    "Review and revise content related to '" \o keyword \o "' to ensure compliance."

CountAdvisory(n) ==
    "Review " \o IntToStr(n) \o " sections identified as potentially non-compliant."

\* C21: generate_recommendations returns, in this order: the high-risk
\* advisory and one keyword advisory for each of the first min(3, n)
\* high-risk findings when there is a high-risk finding; the count advisory
\* when there is a problematic section, followed by the focus advisory only
\* when there are more than 3 of them; the comprehensive-review advisory
\* when there are more than 5 findings; and one fallback exactly when
\* nothing else was produced: the review reminder if there are findings,
\* the good-compliance message if not.  The list is never empty.
C21_Recommendations ==
    Recommended =>
      \A recs \in {outcome.value} :
        LET fs   == frame.findings
            ps   == frame.problematic_sections
            high == SelectSeq(fs, LAMBDA f : f.risk_level = "high_risk")
            k    == IF Len(high) < 3 THEN Len(high) ELSE 3
            n1   == IF Len(high) > 0 THEN 1 + k ELSE 0
            n2   == IF Len(ps) = 0 THEN 0 ELSE IF Len(ps) > 3 THEN 2 ELSE 1
            n3   == IF Len(fs) > 5 THEN 1 ELSE 0
        IN  /\ Len(recs) > 0
            /\ Len(recs) = n1 + n2 + n3 + (IF n1 + n2 + n3 = 0 THEN 1 ELSE 0)
            /\ n1 > 0 =>
                 /\ recs[1] = "Address high-risk compliance issues identified in the key findings section."
                 /\ \A i \in 1..k :
                      recs[1 + i] = KeywordAdvisory(QuotedKeyword(high[i]))
            /\ n2 > 0 => recs[n1 + 1] = CountAdvisory(Len(ps))
            /\ n2 = 2 => recs[n1 + 2] = "Focus on the most problematic sections first (those with highest non-compliance confidence)."
            /\ n3 > 0 => recs[n1 + n2 + 1] = "Consider a comprehensive compliance review as multiple potential issues were identified."
            /\ n1 + n2 + n3 = 0 =>
                 recs = << IF fs # <<>>
                           THEN "Review identified findings to ensure full compliance with relevant regulations."
                           ELSE "Document appears to have good compliance, but regular reviews are recommended." >>

\* More than three high-risk findings, more than three problematic
\* sections and more than five findings: three keyword advisories only.
C21_Witness ==
    /\ Recommended
    /\ Len(SelectSeq(frame.findings, IsHighRisk)) > 3
    /\ Len(frame.problematic_sections) > 3
    /\ Len(frame.findings) > 5
    /\ Len(outcome.value) = 7
    /\ outcome.value[4] = KeywordAdvisory("illegal")

Formatted == pc = "format_citations"

\* s without the slashes it ends in.
RECURSIVE WithoutTrailingSlashes(_)
WithoutTrailingSlashes(s) ==
    IF Len(s) > 0 /\ SubSeq(s, Len(s), Len(s)) = "/"
    THEN WithoutTrailingSlashes(SubSeq(s, 1, Len(s) - 1))
    ELSE s

\* C23: for every match with at least one matched category and no explicit
\* section_urls, format_citations emits one search URL per matched
\* category, base_url + "search?q=" + the category with '_' replaced by
\* '+', where base_url is the source URL made to end in exactly one slash,
\* whether the source URL ends in no slash, in one or in several.
C23_SearchUrlPerCategory ==
    Formatted =>
      \A i \in 1..Len(frame.sources) :
        LET source == frame.sources[i]
            info   == outcome.value[i].reference_info
        IN  ( /\ "section_urls" \notin DOMAIN source
              /\ "matched_categories" \in DOMAIN source
              /\ Len(source.matched_categories) > 0 )
            => /\ "section_urls" \in DOMAIN info
               /\ DOMAIN info.section_urls
                    = {source.matched_categories[k] :
                          k \in 1..Len(source.matched_categories)}
               /\ \A category \in DOMAIN info.section_urls :
                    info.section_urls[category]
                      = WithoutTrailingSlashes(source.source_url) \o "/search?q="
                          \o Replace(category, "_", "+")

Cleaned == pc = "clean_text_for_preview"

\* C24: for every input text and every max_length, the output of
\* clean_text_for_preview has at most max_length + 3 characters and holds
\* no control character (every character is printable or whitespace),
\* whichever branch produced it.
C24_PreviewBounded ==
    Cleaned =>
      /\ Len(outcome.value) <= frame.max_length + 3
      /\ \A i \in 1..Len(outcome.value) :
            ~IsNonPrintable(SubSeq(outcome.value, i, i))

\* C25: clean_text_for_preview returns '[Binary or non-text content]' for
\* every empty or whitespace-only input, and a non-empty string for every
\* input.
C25_PlaceholderAndNonEmpty ==
    Cleaned =>
      /\ (\A i \in 1..Len(text) : SubSeq(text, i, i) \in {" ", "\t", "\n", "\r", "\f"})
            => outcome.value = "[Binary or non-text content]"
      /\ outcome.value # ""

\* A whitespace-only input that is not empty has been answered with the
\* placeholder.
C25_Witness ==
    /\ Cleaned
    /\ text = "  \t\n "
    /\ outcome.value = "[Binary or non-text content]"

(***************************************************************************)
(* Properties of interleaved invocations of analyze_document, checked      *)
(* under ConcurrentSpec.                                                   *)
(***************************************************************************)
\* What an invocation produces alone: its steps replayed one after the
\* other over the catalog as shipped, with the environment's answers
\* history[k..].
RECURSIVE Replay(_, _, _)
Replay(local, history, k) ==
    IF k > Len(history) THEN local
    ELSE Replay(Advance(REGULATORY_SOURCES, local, history[k]), history, k + 1)

AllReturned == \A i \in Invocations : pc[i] = "done"

MalformedRequest ==
    /\ pc \in {"get_analysis_status", "delete_document"}
    /\ ~MatchesUuidBody(text)

\* C27: a status or delete request with a document_id that is not a
\* well-formed UUID is answered with HTTP 400 'Invalid document ID format',
\* and no stored record or uploaded file is read or removed.
C27_MalformedIdRefused ==
    MalformedRequest =>
        /\ outcome = [status_code |-> 400, detail |-> "Invalid document ID format"]
        /\ frame.accessed = {}

\* GET /status/{d} would answer 'completed' in this state.
ReportedCompleted(d) ==
    /\ get_analysis_status(frame, d).status_code = 200
    /\ get_analysis_status(frame, d).body.status = "completed"

\* C28: every upload accepted with 202 and a document_id is eventually
\* reported as 'completed' by GET /status/{document_id} once its background
\* task has run, whichever backend stored the result and whatever the status
\* of the analysis: the document does not stay 'pending' for ever.
C28_AcceptedEventuallyCompleted ==
    \A d \in IssuedIds :
        (d \in frame.accepted /\ d \notin frame.ran)
            ~> (d \in frame.ran /\ ReportedCompleted(d))

(***************************************************************************)
(* Properties of the token budget, checked under BudgetSpec.               *)
(***************************************************************************)
\* C29: after any sequence or interleaving of call_openai_with_retry calls
\* used_tokens never exceeds max_daily_tokens.
C29_WithinBudget ==
    frame.token_budget.used_tokens <= frame.token_budget.max_daily_tokens

====
